---- MODULE Spec2Model ----
(***************************************************************************)
(* Storage and migration engine of the Claudian plugin.                    *)
(*                                                                         *)
(* StorageService.initialize() is modelled as the sequence of its awaited  *)
(* store operations (one action per awaited read/write group), over the    *)
(* persisted files:                                                        *)
(*   .claude/settings.json           (ccFile)                              *)
(*   .claude/claudian-settings.json  (clFile)                              *)
(*   data.json, the host's blob      (blob)                                *)
(*   .claude/commands/<name>.md      (cmdFiles)                            *)
(*   .claude/sessions/<id>.jsonl     (sessFiles)                           *)
(*                                                                         *)
(* A JSON object is a function from its keys to its values; a key that is  *)
(* absent (undefined) is outside the DOMAIN.  A JSON value whose shape is  *)
(* variable (array or object) is tagged: [t |-> "list" | "obj", v |-> _].  *)
(* Key order inside an object is not modelled.                             *)
(***************************************************************************)
EXTENDS Naturals, Sequences, FiniteSets, TLC

VARIABLES
  ccFile,     \* settings.json:           [exists, data]
  clFile,     \* claudian-settings.json:  [exists, valid, data]
  blob,       \* data.json (plugin.loadData()): [exists, data]
  cmdFiles,   \* command path  -> [exists, data]
  sessFiles,  \* session path  -> [exists, data]
  pc,         \* position inside initialize(): "idle" when no call is running
  dataJson,   \* runMigrations' local: the blob as loaded at the start
  locals,     \* what the migration step in progress read before its await
  idx,        \* loop position of migrateLegacyDataJsonContent
  hadErrors,  \* migrateLegacyDataJsonContent's hadErrors
  pre,        \* the files as they were when the current/last call started
  log,        \* the writes issued by the current/last call, in order
  outcome,    \* "none" | "running" | "returned" | "threw"
  ret,        \* what the last normally-returning call returned
  call,       \* a call of one of the pure functions: [fn, arg]
  result,     \* what that call returned: [done, v]
  ops,        \* the calls made on ClaudianSettingsStorage, one per caller
  plugin,     \* the ClaudianPlugin object and its position in onload()
  edit        \* the call of SlashCommandSettings.saveCommand / deleteCommand

vars == <<ccFile, clFile, blob, cmdFiles, sessFiles, pc, dataJson, locals, idx,
          hadErrors, pre, log, outcome, ret, call, result, ops, plugin, edit>>

\* the variables of the callers of the storage layer
clientVars == <<call, result, ops, plugin, edit>>

----------------------------------------------------------------------------
(* Bounds of the model *)

\* longest legacy command / conversation array carried by the blob
MaxItems == 2

\* longest flat permissions array handed to the conversion
MaxPerms == 3

\* most lines of a free-text environment block
MaxEnvLines == 2

\* longest blocked-command list handed to the normalization
MaxBlocked == 2

\* calls made on ClaudianSettingsStorage, each by a caller of its own
MaxCalls == 2

\* calls that the host, the views and the settings tab make on the loaded
\* plugin
MaxUserCalls == 1

\* handlers that the buttons of the slash command settings start
MaxHandlers == 2

\* command modals that are open at once
MaxModals == 2

\* views that are open when the plugin is unloaded
MaxViews == 1

----------------------------------------------------------------------------
(* JSON helpers *)

EmptyObj == [k \in {} |-> TRUE]

Has(o, k) == k \in DOMAIN o

\* JSON null
Null == [t |-> "null", v |-> 0]

\* v === null, for a value of any type (values of different types are
\* compared through their printed form)
IsNull(v) == ToString(v) = ToString(Null)

\* typeof v === 'string', for a string that is kept as such
IsString(v) == SubSeq(ToString(v), 1, 1) = "\""

\* o[k], with d standing for undefined when the key is absent
Get(o, k, d) == IF Has(o, k) THEN o[k] ELSE d

\* JavaScript o[k] ?? d: d for an absent key and for a null
Coalesce(o, k, d) == IF Has(o, k) /\ ~IsNull(o[k]) THEN o[k] ELSE d

\* JavaScript { ...a, ...b }
Spread(a, b) ==
  [k \in (DOMAIN a) \cup (DOMAIN b) |-> IF k \in DOMAIN b THEN b[k] ELSE a[k]]

\* JavaScript delete / rest destructuring
Without(o, ks) == [k \in (DOMAIN o) \ ks |-> o[k]]

\* JavaScript truthiness of a string or null value
Truthy(s) == ~IsNull(s) /\ s # ""

Range(s) == {s[i] : i \in DOMAIN s}

----------------------------------------------------------------------------
(* Strings that the code trims are sequences of tokens; " " is whitespace. *)

RECURSIVE TrimLeft(_)
TrimLeft(s) ==
  IF s = <<>> THEN <<>>
  ELSE IF Head(s) = " " THEN TrimLeft(Tail(s)) ELSE s

RECURSIVE TrimRight(_)
TrimRight(s) ==
  IF s = <<>> THEN <<>>
  ELSE IF s[Len(s)] = " " THEN TrimRight(SubSeq(s, 1, Len(s) - 1)) ELSE s

\* String.prototype.trim
Trim(s) == TrimRight(TrimLeft(s))

\* a JSON string item / a JSON item that is no string / arrays / objects
Str(toks) == [t |-> "str", v |-> toks]
NonStr(n) == [t |-> "num", v |-> n]
List(seq) == [t |-> "list", v |-> seq]
Obj(fn)   == [t |-> "obj", v |-> fn]

----------------------------------------------------------------------------
(* migrationConstants.ts *)

CLAUDIAN_ONLY_FIELDS ==
  { "userName",
    "enableBlocklist", "blockedCommands", "permissionMode",
    "lastNonPlanPermissionMode",
    "model", "thinkingBudget", "enableAutoTitleGeneration",
    "titleGenerationModel",
    "excludedTags", "mediaFolder", "systemPrompt", "allowedExportPaths",
    "persistentExternalContextPaths",
    "environmentVariables", "envSnippets",
    "keyboardNavigation",
    "claudeCliPath", "claudeCliPaths", "loadUserClaudeSettings",
    "allowedContextPaths", "showToolUse", "toolCallExpandedByDefault" }

MIGRATABLE_CLAUDIAN_FIELDS ==
  { "userName", "enableBlocklist", "blockedCommands", "permissionMode",
    "lastNonPlanPermissionMode", "model", "thinkingBudget",
    "enableAutoTitleGeneration", "titleGenerationModel", "excludedTags",
    "mediaFolder", "systemPrompt", "allowedExportPaths",
    "persistentExternalContextPaths", "environmentVariables", "envSnippets",
    "env", "keyboardNavigation", "claudeCliPath", "claudeCliPaths",
    "loadUserClaudeSettings" }

DEPRECATED_FIELDS ==
  { "allowedContextPaths", "showToolUse", "toolCallExpandedByDefault" }

(* A text is the sequence of its tokens: "\n" ends a line, "=" separates    *)
(* key and value, "#" starts a comment, " " is whitespace, any other token *)
(* is an ordinary character.  The structured env map is the sequence of    *)
(* its entries [k, v] in insertion order: k a text, v a tagged JSON value. *)

\* Array.prototype.join('\n')
RECURSIVE Join(_)
Join(lines) ==
  IF lines = <<>> THEN <<>>
  ELSE IF Len(lines) = 1 THEN lines[1]
  ELSE lines[1] \o <<"\n">> \o Join(Tail(lines))

\* String.prototype.split('\n'): cur is the line being read
RECURSIVE SplitFrom(_, _)
SplitFrom(text, cur) ==
  IF text = <<>> THEN <<cur>>
  ELSE IF Head(text) = "\n" THEN <<cur>> \o SplitFrom(Tail(text), <<>>)
  ELSE SplitFrom(Tail(text), Append(cur, Head(text)))

Split(text) == SplitFrom(text, <<>>)

\* String.prototype.indexOf('='), counted from 1; 0 when there is none
IndexOfEq(line) ==
  LET I == {i \in DOMAIN line : line[i] = "="}
  IN IF I = {} THEN 0 ELSE CHOOSE i \in I : \A j \in I : i <= j

\* `${key}=${value}`
KV(k, v) == k \o <<"=">> \o v

\* the string entries of the env map, one KEY=VALUE line each
RECURSIVE EnvEntriesToLines(_)
EnvEntriesToLines(entries) ==
  IF entries = <<>> THEN <<>>
  ELSE IF Head(entries).v.t = "str"
       THEN <<KV(Head(entries).k, Head(entries).v.v)>>
              \o EnvEntriesToLines(Tail(entries))
       ELSE EnvEntriesToLines(Tail(entries))

\* typeof value === 'object' of a value that is not null: objects and arrays
IsObject(value) == value.t \in {"obj", "list"}

\* Object.entries of an env value: an array gives its indices as keys
EnvEntries(env) ==
  IF env.t = "list"
  THEN [i \in DOMAIN env.v |-> [k |-> <<ToString(i - 1)>>, v |-> env.v[i]]]
  ELSE env.v

\* convertEnvObjectToString
convertEnvObjectToString(env) ==
  IF ~IsObject(env) THEN <<>> ELSE Join(EnvEntriesToLines(EnvEntries(env)))

\* Map.set(key, value): a new key goes last, a known key keeps its place
MapSet(m, k, v) ==
  IF \E i \in DOMAIN m : m[i].k = k
  THEN [i \in DOMAIN m |-> IF m[i].k = k THEN [k |-> k, v |-> v] ELSE m[i]]
  ELSE Append(m, [k |-> k, v |-> v])

\* mergeEnvironmentVariables: one parse loop over the lines of a text
RECURSIVE ParseEnvInto(_, _)
ParseEnvInto(m, lines) ==
  IF lines = <<>> THEN m
  ELSE LET trimmed == Trim(Head(lines))
           eqIndex == IndexOfEq(trimmed)
       IN IF trimmed = <<>> \/ Head(trimmed) = "#" \/ eqIndex <= 1
          THEN ParseEnvInto(m, Tail(lines))
          ELSE ParseEnvInto(
                 MapSet(m, SubSeq(trimmed, 1, eqIndex - 1),
                        SubSeq(trimmed, eqIndex + 1, Len(trimmed))),
                 Tail(lines))

\* mutant: the text given first overrides the one given second
mergeEnvironmentVariables_FirstWins(existing, additional) ==
  LET envMap == ParseEnvInto(ParseEnvInto(<<>>, Split(additional)), Split(existing))
  IN Join([i \in DOMAIN envMap |-> KV(envMap[i].k, envMap[i].v)])

\* mergeEnvironmentVariables: later values override earlier ones
mergeEnvironmentVariables(existing, additional) ==
  LET envMap == ParseEnvInto(ParseEnvInto(<<>>, Split(existing)), Split(additional))
  IN Join([i \in DOMAIN envMap |-> KV(envMap[i].k, envMap[i].v)])

----------------------------------------------------------------------------
(* core/types: the default tables *)

DefaultUnix == <<Str(<<"rm", " ", "-rf">>), Str(<<"chmod", " ", "777">>)>>
DefaultWindows == <<Str(<<"Format-Volume">>)>>

getDefaultBlockedCommands ==
  Obj([unix |-> List(DefaultUnix), windows |-> List(DefaultWindows)])

DEFAULT_SETTINGS ==
  [ userName |-> "",
    enableBlocklist |-> TRUE,
    blockedCommands |-> getDefaultBlockedCommands,
    model |-> "haiku",
    thinkingBudget |-> "off",
    permissionMode |-> "yolo",
    excludedTags |-> <<>>,
    mediaFolder |-> "",
    environmentVariables |-> <<>>,
    envSnippets |-> <<>>,
    systemPrompt |-> "",
    allowedExportPaths |-> <<>>,
    persistentExternalContextPaths |-> <<>>,
    keyboardNavigation |-> "wsi",
    claudeCliPath |-> "",
    claudeCliPathsByHost |-> Obj(EmptyObj),
    loadUserClaudeSettings |-> TRUE,
    enableAutoTitleGeneration |-> TRUE,
    titleGenerationModel |-> "",
    lastClaudeModel |-> "haiku",
    lastCustomModel |-> "",
    lastEnvHash |-> "" ]

DEFAULT_CC_PERMISSIONS ==
  Obj([allow |-> <<>>, deny |-> <<>>, ask |-> <<>>])

CC_SETTINGS_SCHEMA == "https://json.schemastore.org/claude-code-settings.json"

----------------------------------------------------------------------------
(* ClaudianSettingsStorage *)

\* mutant: the entries are filtered but not trimmed
RECURSIVE CleanCommandItems_NoTrim(_)
CleanCommandItems_NoTrim(items) ==
  IF items = <<>> THEN <<>>
  ELSE LET h == Head(items) IN
       IF h.t = "str" /\ Trim(h.v) # <<>>
       THEN <<h>> \o CleanCommandItems_NoTrim(Tail(items))
       ELSE CleanCommandItems_NoTrim(Tail(items))

\* normalizeCommandList: filter strings, trim, filter non-empty
RECURSIVE CleanCommandItems(_)
CleanCommandItems(items) ==
  IF items = <<>> THEN <<>>
  ELSE LET h == Head(items) IN
       IF h.t = "str" /\ Trim(h.v) # <<>>
       THEN <<Str(Trim(h.v))>> \o CleanCommandItems(Tail(items))
       ELSE CleanCommandItems(Tail(items))

\* normalizeCommandList(value, fallback); the value is absent when has = FALSE
normalizeCommandList(has, value, fallback) ==
  IF ~has \/ value.t # "list" THEN List(fallback)
  ELSE List(CleanCommandItems(value.v))

\* normalizeBlockedCommands(value)
normalizeBlockedCommands(has, value) ==
  IF has /\ value.t = "list"
  THEN Obj([unix |-> normalizeCommandList(TRUE, value, DefaultUnix),
            windows |-> List(DefaultWindows)])
  ELSE IF ~has \/ value.t # "obj" THEN getDefaultBlockedCommands
  ELSE Obj([unix |-> normalizeCommandList(Has(value.v, "unix"),
                        Get(value.v, "unix", List(<<>>)), DefaultUnix),
            windows |-> normalizeCommandList(Has(value.v, "windows"),
                        Get(value.v, "windows", List(<<>>)),
                        DefaultWindows)])

\* Object.entries of a value keyed by name: an array gives its indices as keys
KeyedEntries(value) ==
  IF value.t = "list"
  THEN [k \in {ToString(i - 1) : i \in DOMAIN value.v} |->
          value.v[CHOOSE i \in DOMAIN value.v : ToString(i - 1) = k]]
  ELSE value.v

\* normalizeHostnameCliPaths(value)
normalizeHostnameCliPaths(has, value) ==
  IF ~has \/ ~IsObject(value) THEN Obj(EmptyObj)
  ELSE LET entries == KeyedEntries(value)
           keep == {k \in DOMAIN entries :
                      entries[k].t = "str" /\ Trim(entries[k].v) # <<>>}
       IN Obj([k \in keep |-> Str(Trim(entries[k].v))])

\* ClaudianSettingsStorage.getDefaults
ClaudianDefaults == DEFAULT_SETTINGS

\* load: typeof stored.claudeCliPath === 'string' ? stored.claudeCliPath : ''
LegacyCliPath(stored) ==
  IF Has(stored, "claudeCliPath") /\ IsString(stored["claudeCliPath"])
  THEN stored["claudeCliPath"] ELSE ""

\* mutant: the stored record is returned without the defaults under it
ClaudianLoadStored_NoDefaults(stored) ==
  Spread(
    Without(stored, {"activeConversationId"}),
    [ blockedCommands |->
        normalizeBlockedCommands(Has(stored, "blockedCommands"),
                                 Get(stored, "blockedCommands", List(<<>>))),
      claudeCliPath |-> LegacyCliPath(stored),
      claudeCliPathsByHost |->
        normalizeHostnameCliPaths(Has(stored, "claudeCliPathsByHost"),
                                  Get(stored, "claudeCliPathsByHost",
                                           Obj(EmptyObj))) ])

\* ClaudianSettingsStorage.load on a file that exists and parses
ClaudianLoadStored(stored) ==
  Spread(
    Spread(ClaudianDefaults, Without(stored, {"activeConversationId"})),
    [ blockedCommands |->
        normalizeBlockedCommands(Has(stored, "blockedCommands"),
                                 Get(stored, "blockedCommands", List(<<>>))),
      claudeCliPath |-> LegacyCliPath(stored),
      claudeCliPathsByHost |->
        normalizeHostnameCliPaths(Has(stored, "claudeCliPathsByHost"),
                                  Get(stored, "claudeCliPathsByHost",
                                           Obj(EmptyObj))) ])

\* ClaudianSettingsStorage.load: the defaults when the file is absent
\* (the caller handles a file that does not parse: JSON.parse throws)
ClaudianLoad(file) ==
  IF ~file.exists THEN ClaudianDefaults ELSE ClaudianLoadStored(file.data)

\* whether ClaudianSettingsStorage.load throws
ClaudianLoadThrows(file) == file.exists /\ ~file.valid

\* ClaudianSettingsStorage.save: what adapter.write leaves in the file
ClaudianFileOf(settings) == [exists |-> TRUE, valid |-> TRUE, data |-> settings]

AbsentClaudian == [exists |-> FALSE, valid |-> TRUE, data |-> EmptyObj]
CorruptClaudian == [exists |-> TRUE, valid |-> FALSE, data |-> EmptyObj]

----------------------------------------------------------------------------
(* core/types: legacy permission conversion.  A pattern is the sequence of *)
(* its tokens (<<>> is the empty string).  A rule string is [tool, pat]    *)
(* standing for "tool" when pat = <<>> and for "tool(pat)" otherwise.      *)

Rule(tool, pat) == [tool |-> tool, pat |-> pat]

\* mutant: every pattern other than the empty one and the wildcard is kept
legacyPermissionToCCRule_KeepsJson(perm) ==
  IF perm.pattern = <<>> \/ perm.pattern = <<"*">>
  THEN Rule(perm.toolName, <<>>)
  ELSE Rule(perm.toolName, perm.pattern)

\* legacyPermissionToCCRule: the bare tool name for an empty pattern, the
\* wildcard and a JSON object text (the legacy format), tool(pattern) otherwise
legacyPermissionToCCRule(perm) ==
  IF perm.pattern = <<>> \/ perm.pattern = <<"*">> \/ Head(perm.pattern) = "{"
  THEN Rule(perm.toolName, <<>>)
  ELSE Rule(perm.toolName, perm.pattern)

RECURSIVE ConvertAlways(_, _)
ConvertAlways(perms, acc) ==
  IF perms = <<>> THEN acc
  ELSE LET p == Head(perms)
           r == legacyPermissionToCCRule(p)
       IN IF p.scope = "always" /\ r \notin Range(acc)
          THEN ConvertAlways(Tail(perms), Append(acc, r))
          ELSE ConvertAlways(Tail(perms), acc)

\* legacyPermissionsToCCPermissions
legacyPermissionsToCCPermissions(perms) ==
  Obj([allow |-> ConvertAlways(perms, <<>>), deny |-> <<>>, ask |-> <<>>])

----------------------------------------------------------------------------
(* CCSettingsStorage *)

AbsentCC == [exists |-> FALSE, data |-> EmptyObj]

\* isLegacyPermissionsFormat: permissions is the old flat array
isLegacyPermissionsFormat(data) ==
  Has(data, "permissions") /\ data["permissions"].t = "list"

\* the {schemaRef, permissions} record
CCSettings(perms) == ("$schema" :> CC_SETTINGS_SCHEMA) @@ ("permissions" :> perms)

\* CCSettingsStorage.save(settings, true): the file holds only the record
CCFileOf(settings) == [exists |-> TRUE, data |-> settings]

\* permissions object as CCSettingsStorage.load returns it
CCLoadPermissions(data) ==
  IF isLegacyPermissionsFormat(data)
  THEN legacyPermissionsToCCPermissions(data["permissions"].v)
  ELSE IF Has(data, "permissions") /\ data["permissions"].t = "obj"
       THEN Obj(Spread(DEFAULT_CC_PERMISSIONS.v, data["permissions"].v))
       ELSE DEFAULT_CC_PERMISSIONS

\* CCSettingsStorage.load
CCLoad(file) ==
  IF ~file.exists THEN CCSettings(DEFAULT_CC_PERMISSIONS)
  ELSE CCSettings(CCLoadPermissions(file.data))

----------------------------------------------------------------------------
(* SlashCommandStorage / SessionStorage: one file per entity *)

NoEntity == [exists |-> FALSE, data |-> EmptyObj]
EntityFile(e) == [exists |-> TRUE, data |-> e]

\* SlashCommandStorage.getFilePath: derived from the command's name
CommandPath(command) == command.name

\* SessionStorage.getFilePath: derived from the conversation's id
SessionPath(id) == id

----------------------------------------------------------------------------
(* StorageService: pure parts *)

\* loadDataJson: data || null
loadDataJson(b) == b

\* mutant: every blob is taken to carry bookkeeping fields
hasStateToMigrate_Always(data) == TRUE

\* hasStateToMigrate
hasStateToMigrate(data) ==
  Has(data, "lastEnvHash") \/ Has(data, "lastClaudeModel")
    \/ Has(data, "lastCustomModel")

CommandsOf(data) == Coalesce(data, "slashCommands", <<>>)
ConversationsOf(data) == Coalesce(data, "conversations", <<>>)

\* hasLegacyContentToMigrate
hasLegacyContentToMigrate(data) ==
  Len(CommandsOf(data)) > 0 \/ Len(ConversationsOf(data)) > 0

\* mutant: the early return for an already clean settings.json is lost
hasClaudianFields_Always(oldSettings) == TRUE

\* migrateFromOldSettingsJson: hasClaudianFields
hasClaudianFields(oldSettings) ==
  \E field \in CLAUDIAN_ONLY_FIELDS : Has(oldSettings, field)

\* migrateFromOldSettingsJson: the merged environmentVariables
MergedEnvironmentVariables(oldSettings) ==
  LET environmentVariables == Coalesce(oldSettings, "environmentVariables", <<>>)
  IN IF Has(oldSettings, "env") /\ IsObject(oldSettings["env"])
     THEN LET envFromCC == convertEnvObjectToString(oldSettings["env"])
          IN IF envFromCC # <<>>
             THEN mergeEnvironmentVariables(environmentVariables, envFromCC)
             ELSE environmentVariables
     ELSE environmentVariables

\* migrateFromOldSettingsJson: claudianFields
ClaudianFieldsOf(oldSettings) ==
  LET D == DEFAULT_SETTINGS
      From(k) == Coalesce(oldSettings, k, D[k])
  IN [ userName |-> From("userName"),
       enableBlocklist |-> From("enableBlocklist"),
       blockedCommands |->
         normalizeBlockedCommands(Has(oldSettings, "blockedCommands"),
           Get(oldSettings, "blockedCommands", List(<<>>))),
       model |-> From("model"),
       thinkingBudget |-> From("thinkingBudget"),
       permissionMode |-> From("permissionMode"),
       excludedTags |-> From("excludedTags"),
       mediaFolder |-> From("mediaFolder"),
       environmentVariables |-> MergedEnvironmentVariables(oldSettings),
       envSnippets |-> From("envSnippets"),
       systemPrompt |-> From("systemPrompt"),
       allowedExportPaths |-> From("allowedExportPaths"),
       persistentExternalContextPaths |-> D.persistentExternalContextPaths,
       keyboardNavigation |-> From("keyboardNavigation"),
       claudeCliPath |-> From("claudeCliPath"),
       claudeCliPathsByHost |-> D.claudeCliPathsByHost,
       loadUserClaudeSettings |-> From("loadUserClaudeSettings"),
       enableAutoTitleGeneration |-> From("enableAutoTitleGeneration"),
       titleGenerationModel |-> From("titleGenerationModel"),
       lastClaudeModel |-> D.lastClaudeModel,
       lastCustomModel |-> D.lastCustomModel,
       lastEnvHash |-> D.lastEnvHash ]

\* mutant: the read-back check is skipped
VerifySaved_Skipped(file) == TRUE

\* migrateFromOldSettingsJson: the read-back check; TRUE when it passes
VerifySaved(file) ==
  ~ClaudianLoadThrows(file) /\ Has(ClaudianLoad(file), "userName")

\* mutant: the legacy permissions are replaced by the empty defaults
CCPermissionsOf_Defaults(oldSettings) == DEFAULT_CC_PERMISSIONS

\* migrateFromOldSettingsJson: ccPermissions
CCPermissionsOf(oldSettings) ==
  IF isLegacyPermissionsFormat(oldSettings)
  THEN legacyPermissionsToCCPermissions(oldSettings["permissions"].v)
  ELSE IF Has(oldSettings, "permissions") /\ oldSettings["permissions"].t = "obj"
  THEN LET existingPerms == oldSettings["permissions"].v
       IN Obj([allow |-> Coalesce(existingPerms, "allow", <<>>),
               deny |-> Coalesce(existingPerms, "deny", <<>>),
               ask |-> Coalesce(existingPerms, "ask", <<>>)]
              @@ [k \in {"defaultMode", "additionalDirectories"}
                          \cap DOMAIN existingPerms |-> existingPerms[k]])
  ELSE DEFAULT_CC_PERMISSIONS

\* mutant: the rewrite spreads the old settings into the new file
CCSettingsOf_KeepsOld(oldSettings) ==
  Spread(oldSettings, CCSettings(CCPermissionsOf(oldSettings)))

\* migrateFromOldSettingsJson: ccSettings, what is written to settings.json
CCSettingsOf(oldSettings) == CCSettings(CCPermissionsOf(oldSettings))

\* mutant: the blob's value is taken whenever the blob has one
MergeState_BlobWins(claudian, data) ==
  [k \in DOMAIN claudian |->
     IF k \in {"lastEnvHash", "lastClaudeModel", "lastCustomModel"} /\ Has(data, k)
     THEN data[k] ELSE claudian[k]]

\* migrateFromDataJson: the merge of the blob's state into the loaded settings
MergeState(claudian, data) ==
  LET Take(k) == Has(data, k) /\ ~Truthy(claudian[k])
  IN [k \in DOMAIN claudian |->
        IF k \in {"lastEnvHash", "lastClaudeModel", "lastCustomModel"} /\ Take(k)
        THEN data[k] ELSE claudian[k]]

\* mutant: the clear gate forgets the content migration's errors
ShouldClear_IgnoresErrors(hasState, hasLegacyContent, legacyContentHadErrors) ==
  hasState \/ hasLegacyContent

\* mutant: the blob is cleared on every call
ShouldClear_Always(hasState, hasLegacyContent, legacyContentHadErrors) == TRUE

\* mutant: the blob is cleared only for the sake of its bookkeeping fields
ShouldClear_OnlyState(hasState, hasLegacyContent, legacyContentHadErrors) ==
  hasState /\ ~legacyContentHadErrors

\* runMigrations: the condition under which clearLegacyDataJson is called
ShouldClear(hasState, hasLegacyContent, legacyContentHadErrors) ==
  (hasState \/ hasLegacyContent) /\ ~legacyContentHadErrors

\* mutant: clearing saves an empty blob
Cleaned_Everything(data) == EmptyObj

\* clearLegacyDataJson: cleaned
Cleaned(data) ==
  Without(data, {"lastEnvHash", "lastClaudeModel", "lastCustomModel",
                 "conversations", "slashCommands", "migrationVersion"})

----------------------------------------------------------------------------
(* StorageService.initialize(): one action per awaited store operation.    *)
(* A write issued to the adapter is logged as [t, p, r]: the target, the   *)
(* path under the target's directory, and what the host did with it:       *)
(*   "ok"      the file holds the content and the call returned            *)
(*   "throw"   the call threw and the file is unchanged                    *)
(*   "silent"  the call returned and the file is unchanged                 *)
(*   "corrupt" the call returned and the file holds unparseable content    *)
(* The read-back check of the split migration is logged too, as            *)
(* [t |-> "verify"], with r = "ok" when it passed and "throw" when not.    *)

W(t, p, r) == [t |-> t, p |-> p, r |-> r]

\* the files, and how the previous call ended, when a call starts
Snapshot ==
  [cc |-> ccFile, cl |-> clFile, blob |-> blob, cmds |-> cmdFiles,
   sess |-> sessFiles, outcome |-> outcome, ret |-> ret]

\* where runMigrations goes once the conversations loop is reached
PcConversations(dj) ==
  IF Len(ConversationsOf(dj.data)) > 0 THEN "conversations" ELSE "clear"

\* where runMigrations goes once migrateLegacyDataJsonContent is reached
PcContent(dj) ==
  IF ~hasLegacyContentToMigrate(dj.data) THEN "clear"
  ELSE IF Len(CommandsOf(dj.data)) > 0 THEN "commands"
  ELSE PcConversations(dj)

\* where runMigrations goes after the split migration: if (dataJson) ...
PcData(dj) ==
  IF ~dj.exists THEN "loadCC"
  ELSE IF hasStateToMigrate(dj.data) THEN "state"
  ELSE PcContent(dj)

\* mutant: the split migration runs whenever settings.json exists
NeedsSplit_WheneverCC(ccExists, claudianExists) == ccExists

\* runMigrations: if (ccExists && !claudianExists)
NeedsSplit(ccExists, claudianExists) == ccExists /\ ~claudianExists

\* mutant: an existing target file is not noticed
TargetExists_Never(files, filePath) == FALSE

\* migrateLegacyDataJsonContent: await this.adapter.exists(filePath)
TargetExists(files, filePath) == files[filePath].exists

\* mutant: a failed save is swallowed
Rejects_Swallowed(r) == FALSE

\* an awaited write that throws rejects the function awaiting it
Rejects(r) == r = "throw"

\* an error propagates out of initialize()
Throw ==
  /\ pc' = "idle"
  /\ outcome' = "threw"

\* no migration step holds anything it read
NoLocals ==
  [oldSettings |-> EmptyObj, claudian |-> EmptyObj,
   dataJson |-> [exists |-> FALSE, data |-> EmptyObj],
   ccExists |-> FALSE, claudianExists |-> FALSE, cc |-> EmptyObj]

\* initialize() is called: await this.ensureDirectories(), whose folders
\* are not part of the state
Initialize ==
  /\ pc = "idle"
  /\ pre' = Snapshot
  /\ log' = <<>>
  /\ outcome' = "running"
  /\ dataJson' = [exists |-> FALSE, data |-> EmptyObj]
  /\ locals' = NoLocals
  /\ idx' = 1
  /\ hadErrors' = FALSE
  /\ pc' = "ccExists"
  /\ UNCHANGED <<ccFile, clFile, blob, cmdFiles, sessFiles, ret>>
  /\ UNCHANGED clientVars

\* runMigrations: const ccExists = await this.ccSettings.exists()
RunMigrationsCCExists ==
  /\ pc = "ccExists"
  /\ locals' = [locals EXCEPT !.ccExists = ccFile.exists]
  /\ pc' = "claudianExists"
  /\ UNCHANGED <<ccFile, clFile, blob, cmdFiles, sessFiles, dataJson, idx,
                 hadErrors, pre, log, outcome, ret>>
  /\ UNCHANGED clientVars

\* runMigrations: const claudianExists = await this.claudianSettings.exists()
RunMigrationsClaudianExists ==
  /\ pc = "claudianExists"
  /\ locals' = [locals EXCEPT !.claudianExists = clFile.exists]
  /\ pc' = "loadData"
  /\ UNCHANGED <<ccFile, clFile, blob, cmdFiles, sessFiles, dataJson, idx,
                 hadErrors, pre, log, outcome, ret>>
  /\ UNCHANGED clientVars

\* runMigrations: const dataJson = await this.loadDataJson(), then
\* if (ccExists && !claudianExists)
RunMigrationsLoadData ==
  /\ pc = "loadData"
  /\ dataJson' = loadDataJson(blob)
  /\ pc' = IF NeedsSplit(locals.ccExists, locals.claudianExists) THEN "split"
           ELSE PcData(loadDataJson(blob))
  /\ locals' = NoLocals
  /\ UNCHANGED <<ccFile, clFile, blob, cmdFiles, sessFiles, idx, hadErrors,
                 pre, log, outcome, ret>>
  /\ UNCHANGED clientVars

\* migrateFromOldSettingsJson: settings.json is read into oldSettings, and
\* the function returns when it has no tool-private field
SplitRead ==
  /\ pc = "split"
  /\ LET oldSettings == ccFile.data IN
     IF ~hasClaudianFields(oldSettings)
     THEN /\ pc' = PcData(dataJson)
          /\ UNCHANGED locals
     ELSE /\ pc' = "splitSave"
          /\ locals' = [locals EXCEPT !.oldSettings = oldSettings]
  /\ UNCHANGED <<ccFile, clFile, blob, cmdFiles, sessFiles, dataJson, idx,
                 hadErrors, pre, log, outcome, ret>>
  /\ UNCHANGED clientVars

\* migrateFromOldSettingsJson: claudianSettings.save(claudianFields)
SplitSaveClaudian ==
  /\ pc = "splitSave"
  /\ \E r \in {"ok", "throw", "silent", "corrupt"} :
       /\ log' = Append(log, W("claudian", "split", r))
       /\ clFile' = CASE r = "ok" ->
                           ClaudianFileOf(ClaudianFieldsOf(locals.oldSettings))
                      [] r = "corrupt" -> CorruptClaudian
                      [] OTHER -> clFile
       /\ IF Rejects(r) THEN Throw
          ELSE pc' = "verify" /\ UNCHANGED outcome
  /\ UNCHANGED <<ccFile, blob, cmdFiles, sessFiles, dataJson, locals, idx,
                 hadErrors, pre, ret>>
  /\ UNCHANGED clientVars

\* migrateFromOldSettingsJson: claudianSettings.load() and the sentinel check
SplitVerify ==
  /\ pc = "verify"
  /\ IF VerifySaved(clFile)
     THEN /\ log' = Append(log, W("verify", "", "ok"))
          /\ pc' = "splitcc"
          /\ UNCHANGED outcome
     ELSE /\ log' = Append(log, W("verify", "", "throw"))
          /\ Throw
  /\ UNCHANGED <<ccFile, clFile, blob, cmdFiles, sessFiles, dataJson, locals,
                 idx, hadErrors, pre, ret>>
  /\ UNCHANGED clientVars

\* migrateFromOldSettingsJson: ccSettings.save(ccSettings, true), built from
\* the oldSettings read at the start of the function
SplitSaveCC ==
  /\ pc = "splitcc"
  /\ \E r \in {"ok", "throw"} :
       /\ log' = Append(log, W("cc", "", r))
       /\ ccFile' = IF r = "ok" THEN CCFileOf(CCSettingsOf(locals.oldSettings))
                    ELSE ccFile
       /\ IF Rejects(r) THEN Throw
          ELSE pc' = PcData(dataJson) /\ UNCHANGED outcome
  /\ locals' = NoLocals
  /\ UNCHANGED <<clFile, blob, cmdFiles, sessFiles, dataJson, idx, hadErrors,
                 pre, ret>>
  /\ UNCHANGED clientVars

\* migrateFromDataJson: const claudian = await this.claudianSettings.load()
MigrateFromDataJsonLoad ==
  /\ pc = "state"
  /\ IF ClaudianLoadThrows(clFile)
     THEN Throw /\ UNCHANGED locals
     ELSE /\ locals' = [locals EXCEPT !.claudian = ClaudianLoad(clFile)]
          /\ pc' = "stateSave"
          /\ UNCHANGED outcome
  /\ UNCHANGED <<ccFile, clFile, blob, cmdFiles, sessFiles, dataJson, idx,
                 hadErrors, pre, log, ret>>
  /\ UNCHANGED clientVars

\* migrateFromDataJson: the three guarded assignments, then
\* await this.claudianSettings.save(claudian)
MigrateFromDataJson ==
  /\ pc = "stateSave"
  /\ \E r \in {"ok", "throw"} :
       /\ log' = Append(log, W("claudian", "state", r))
       /\ clFile' = IF r = "ok"
                    THEN ClaudianFileOf(MergeState(locals.claudian, dataJson.data))
                    ELSE clFile
       /\ IF Rejects(r) THEN Throw
          ELSE pc' = PcContent(dataJson) /\ UNCHANGED outcome
  /\ locals' = NoLocals
  /\ UNCHANGED <<ccFile, blob, cmdFiles, sessFiles, dataJson, idx, hadErrors,
                 pre, ret>>
  /\ UNCHANGED clientVars

\* the slash command loop moves to its next item, or ends
NextCommand ==
  LET last == idx = Len(CommandsOf(dataJson.data))
  IN /\ idx' = IF last THEN 1 ELSE idx + 1
     /\ pc' = IF last THEN PcConversations(dataJson) ELSE "commands"

\* migrateLegacyDataJsonContent, slash command loop:
\* if (await this.adapter.exists(filePath)) continue
MigrateCommandExists ==
  /\ pc = "commands"
  /\ LET command == CommandsOf(dataJson.data)[idx]
     IN IF TargetExists(cmdFiles, CommandPath(command))
        THEN NextCommand
        ELSE pc' = "commandSave" /\ UNCHANGED idx
  /\ UNCHANGED <<ccFile, clFile, blob, cmdFiles, sessFiles, dataJson, locals,
                 hadErrors, pre, log, outcome, ret>>
  /\ UNCHANGED clientVars

\* migrateLegacyDataJsonContent, slash command loop:
\* await this.commands.save(command), a throw is caught
MigrateCommand ==
  /\ pc = "commandSave"
  /\ LET command == CommandsOf(dataJson.data)[idx]
         filePath == CommandPath(command)
     IN \E r \in {"ok", "throw"} :
          /\ log' = Append(log, W("command", filePath, r))
          /\ cmdFiles' = IF r = "ok"
                         THEN [cmdFiles EXCEPT ![filePath] = EntityFile(command)]
                         ELSE cmdFiles
          /\ hadErrors' = (hadErrors \/ r = "throw")
  /\ NextCommand
  /\ UNCHANGED <<ccFile, clFile, blob, sessFiles, dataJson, locals, pre,
                 outcome, ret>>
  /\ UNCHANGED clientVars

\* the conversation loop moves to its next item, or ends
NextConversation ==
  LET last == idx = Len(ConversationsOf(dataJson.data))
  IN /\ idx' = IF last THEN 1 ELSE idx + 1
     /\ pc' = IF last THEN "clear" ELSE "conversations"

\* migrateLegacyDataJsonContent, conversation loop:
\* if (await this.adapter.exists(filePath)) continue
MigrateConversationExists ==
  /\ pc = "conversations"
  /\ LET conversation == ConversationsOf(dataJson.data)[idx]
     IN IF TargetExists(sessFiles, SessionPath(conversation.id))
        THEN NextConversation
        ELSE pc' = "conversationSave" /\ UNCHANGED idx
  /\ UNCHANGED <<ccFile, clFile, blob, cmdFiles, sessFiles, dataJson, locals,
                 hadErrors, pre, log, outcome, ret>>
  /\ UNCHANGED clientVars

\* migrateLegacyDataJsonContent, conversation loop:
\* await this.sessions.saveConversation(conversation), a throw is caught
MigrateConversation ==
  /\ pc = "conversationSave"
  /\ LET conversation == ConversationsOf(dataJson.data)[idx]
         filePath == SessionPath(conversation.id)
     IN \E r \in {"ok", "throw"} :
          /\ log' = Append(log, W("session", filePath, r))
          /\ sessFiles' = IF r = "ok"
                          THEN [sessFiles EXCEPT ![filePath] = EntityFile(conversation)]
                          ELSE sessFiles
          /\ hadErrors' = (hadErrors \/ r = "throw")
  /\ NextConversation
  /\ UNCHANGED <<ccFile, clFile, blob, cmdFiles, dataJson, locals, pre,
                 outcome, ret>>
  /\ UNCHANGED clientVars

\* runMigrations' clear gate, and clearLegacyDataJson up to
\* const dataJson = await this.loadDataJson()
ClearLegacyDataJsonLoad ==
  /\ pc = "clear"
  /\ IF ShouldClear(hasStateToMigrate(dataJson.data),
                    hasLegacyContentToMigrate(dataJson.data), hadErrors)
        /\ loadDataJson(blob).exists
     THEN /\ locals' = [locals EXCEPT !.dataJson = loadDataJson(blob)]
          /\ pc' = "clearSave"
     ELSE /\ pc' = "loadCC"
          /\ UNCHANGED locals
  /\ UNCHANGED <<ccFile, clFile, blob, cmdFiles, sessFiles, dataJson, idx,
                 hadErrors, pre, log, outcome, ret>>
  /\ UNCHANGED clientVars

\* clearLegacyDataJson: the six deletes, then await this.plugin.saveData(cleaned)
ClearLegacyDataJson ==
  /\ pc = "clearSave"
  /\ \E r \in {"ok", "throw"} :
       /\ log' = Append(log, W("blob", "", r))
       /\ blob' = IF r = "ok"
                  THEN [exists |-> TRUE, data |-> Cleaned(locals.dataJson.data)]
                  ELSE blob
       /\ IF Rejects(r) THEN Throw
          ELSE pc' = "loadCC" /\ UNCHANGED outcome
  /\ locals' = NoLocals
  /\ UNCHANGED <<ccFile, clFile, cmdFiles, sessFiles, dataJson, idx, hadErrors,
                 pre, ret>>
  /\ UNCHANGED clientVars

\* initialize: const cc = await this.ccSettings.load()
LoadCCSettings ==
  /\ pc = "loadCC"
  /\ locals' = [locals EXCEPT !.cc = CCLoad(ccFile)]
  /\ pc' = "load"
  /\ UNCHANGED <<ccFile, clFile, blob, cmdFiles, sessFiles, dataJson, idx,
                 hadErrors, pre, log, outcome, ret>>
  /\ UNCHANGED clientVars

\* initialize: const claudian = await this.claudianSettings.load(), then
\* return { cc, claudian }
LoadSettings ==
  /\ pc = "load"
  /\ IF ClaudianLoadThrows(clFile)
     THEN Throw /\ UNCHANGED ret
     ELSE /\ pc' = "idle"
          /\ outcome' = "returned"
          /\ ret' = [cc |-> locals.cc, claudian |-> ClaudianLoad(clFile)]
  /\ locals' = NoLocals
  /\ UNCHANGED <<ccFile, clFile, blob, cmdFiles, sessFiles, dataJson,
                 idx, hadErrors, pre, log>>
  /\ UNCHANGED clientVars

Next ==
  \/ Initialize
  \/ RunMigrationsCCExists
  \/ RunMigrationsClaudianExists
  \/ RunMigrationsLoadData
  \/ SplitRead
  \/ SplitSaveClaudian
  \/ SplitVerify
  \/ SplitSaveCC
  \/ MigrateFromDataJsonLoad
  \/ MigrateFromDataJson
  \/ MigrateCommandExists
  \/ MigrateCommand
  \/ MigrateConversationExists
  \/ MigrateConversation
  \/ ClearLegacyDataJsonLoad
  \/ ClearLegacyDataJson
  \/ LoadCCSettings
  \/ LoadSettings

----------------------------------------------------------------------------
(* Initial states: the installations initialize() is started on. *)

Opt(k, vals) == {EmptyObj} \cup {k :> v : v \in vals}

SeqsUpTo(S, n) == UNION {[1..m -> S] : m \in 0..n}

PermAlways == [toolName |-> "Bash", pattern |-> <<"git", " ", "status">>, scope |-> "always"]
PermStar == [toolName |-> "Bash", pattern |-> <<"*">>, scope |-> "always"]
PermSession == [toolName |-> "Read", pattern |-> <<"notes">>, scope |-> "session"]

\* settings.json of the combined generation (and of the current one)
LegacySettingsFiles ==
  { u @@ l @@ g @@ p @@ b @@ e @@ d :
      u \in Opt("userName", {"Ann"}),
      l \in Opt("lastNonPlanPermissionMode", {"normal"}),
      g \in { EmptyObj,
              ("claudeCliPaths" :> Obj([linux |-> "/usr/bin/claude"]))
                @@ ("persistentExternalContextPaths" :> <<"/path/a">>) },
      p \in Opt("permissions",
                { List(<<PermAlways, PermSession, PermStar>>),
                  List(<<PermAlways, PermStar, PermAlways>>),
                  Obj([allow |-> <<Rule("Read", <<>>)>>, defaultMode |-> "plan",
                       disableBypassPermissionsMode |-> "disable"]) }),
      b \in Opt("blockedCommands",
                { List(<<Str(<<"rm", " ", "-rf">>), Str(<<" ", " ">>)>>) }),
      e \in { EmptyObj,
              ("environmentVariables" :> <<"A", "=", "1", "\n", "B", "=", "2">>)
                @@ ("env" :> Obj(<<[k |-> <<"B">>, v |-> Str(<<"3">>)]>>)),
              ("env" :> List(<<Str(<<"x">>)>>)) },
      d \in Opt("showToolUse", {TRUE}) }

\* claudian-settings.json as earlier runs or hand edits left it
ClaudianSettingsFiles ==
  { u @@ h @@ m @@ c @@ a :
      u \in Opt("userName", {"Bob"}),
      h \in Opt("lastEnvHash", {"", "h1"}),
      m \in Opt("lastClaudeModel", {"opus"}),
      c \in Opt("lastCustomModel", {"c1"}),
      a \in Opt("activeConversationId", {Str(<<"conv-1">>)}) }

\* the bookkeeping fields a legacy blob carries
BlobStates ==
  { h @@ m @@ c :
      h \in Opt("lastEnvHash", {"h2"}),
      m \in Opt("lastClaudeModel", {"sonnet"}),
      c \in Opt("lastCustomModel", {"c2"}) }

\* host-owned and other keys of the blob
BlobOthers ==
  { EmptyObj,
    ("tabManagerState" :> "tabs") @@ ("activeConversationId" :> Str(<<"conv-1">>)),
    ("tabManagerState" :> "tabs") @@ ("migrationVersion" :> "v1") }

CmdReviewA == [id |-> "cmd-1", name |-> "review", content |-> "A"]
CmdReviewB == [id |-> "cmd-2", name |-> "review", content |-> "B"]
CmdFix == [id |-> "cmd-3", name |-> "fix", content |-> "C"]
Commands == {CmdReviewA, CmdReviewB, CmdFix}
CommandPaths == {CommandPath(c) : c \in Commands}

ConvA == [id |-> "conv-1", title |-> "first"]
ConvB == [id |-> "conv-1", title |-> "second"]
Conversations == {ConvA, ConvB}
SessionPaths == {SessionPath(c.id) : c \in Conversations}

NoCommandFiles == [p \in CommandPaths |-> NoEntity]
NoSessionFiles == [p \in SessionPaths |-> NoEntity]

\* the inline legacy content a blob carries
BlobContents ==
  { c @@ v :
      c \in Opt("slashCommands", SeqsUpTo(Commands, MaxItems)),
      v \in Opt("conversations", SeqsUpTo(Conversations, MaxItems)) }

NoBlob == [exists |-> FALSE, data |-> EmptyObj]
BlobOf(data) == [exists |-> TRUE, data |-> data]

InitCommon ==
  /\ pc = "idle"
  /\ dataJson = NoBlob
  /\ locals = NoLocals
  /\ idx = 1
  /\ hadErrors = FALSE
  /\ log = <<>>
  /\ outcome = "none"
  /\ ret = [cc |-> CCLoad(AbsentCC), claudian |-> ClaudianDefaults]
  /\ pre = Snapshot

\* a settings.json in which fields are stored as JSON null
NullSettingsFile ==
  ("userName" :> Null) @@ ("model" :> Null) @@ ("environmentVariables" :> Null)
    @@ ("env" :> Null)
    @@ ("permissions" :> Obj([allow |-> Null, deny |-> <<Rule("Bash", <<>>)>>,
                              defaultMode |-> "plan"]))

\* a combined-generation installation: settings.json alone
InitSplit ==
  /\ \/ ccFile \in {CCFileOf(d) : d \in LegacySettingsFiles}
     \/ ccFile = CCFileOf(NullSettingsFile)
  /\ clFile = AbsentClaudian
  /\ blob \in {NoBlob, BlobOf("lastEnvHash" :> "h2"),
               BlobOf("slashCommands" :> <<CmdFix>>)}
  /\ cmdFiles = NoCommandFiles
  /\ sessFiles = NoSessionFiles

\* an installation whose blob still carries bookkeeping fields
InitState ==
  /\ ccFile \in {AbsentCC, CCFileOf(CCSettings(DEFAULT_CC_PERMISSIONS)),
                 CCFileOf(("userName" :> "Ann")
                           @@ ("permissions" :> List(<<PermAlways>>)))}
  /\ clFile \in {AbsentClaudian} \cup {ClaudianFileOf(d) : d \in ClaudianSettingsFiles}
  /\ blob \in {NoBlob} \cup
              {BlobOf(s @@ o @@ c) : s \in BlobStates, o \in BlobOthers,
                 c \in Opt("slashCommands", {<<CmdFix>>})}
  /\ cmdFiles = NoCommandFiles
  /\ sessFiles = NoSessionFiles

\* an installation whose blob still carries inline commands and conversations
InitContent ==
  /\ ccFile = AbsentCC
  /\ clFile = AbsentClaudian
  /\ blob \in {BlobOf(s @@ c) : s \in Opt("lastEnvHash", {"h2"}), c \in BlobContents}
  /\ \E f \in { <<NoCommandFiles, NoSessionFiles>>,
                <<[NoCommandFiles EXCEPT !["review"] = EntityFile(CmdReviewB)],
                  NoSessionFiles>>,
                <<[NoCommandFiles EXCEPT !["fix"] = EntityFile(CmdFix)],
                  NoSessionFiles>>,
                <<NoCommandFiles,
                  [NoSessionFiles EXCEPT !["conv-1"] = EntityFile(ConvB)]>> } :
       /\ cmdFiles = f[1]
       /\ sessFiles = f[2]

\* no pure function is being called on its own
NoCall == [fn |-> "none", arg |-> <<>>]
Pending == [done |-> FALSE, v |-> <<>>]
Returned(v) == [done |-> TRUE, v |-> v]

NoFunctionCall == call = NoCall /\ result = Pending

\* the callers of ClaudianSettingsStorage
Callers == 1..MaxCalls

\* a caller that has not called yet
NoOp ==
  [kind |-> "none", pc |-> "idle", updates |-> EmptyObj, current |-> EmptyObj,
   seen |-> AbsentClaudian, ret |-> "none"]

\* no call on ClaudianSettingsStorage is being made on its own
NoStoreCall == ops = [c \in Callers |-> NoOp]

\* the plugin before onload()
Unloaded ==
  [pc |-> "unloaded", events |-> <<>>, settings |-> EmptyObj,
   slashCommands |-> {}, conversations |-> <<>>, didMigrateCliPath |-> FALSE,
   changed |-> FALSE, toSave |-> <<>>, unavailable |-> {},
   runtimeEnvironmentVariables |-> <<>>, hasNotifiedEnvChange |-> FALSE,
   applying |-> {}, userCalls |-> 0,
   unloading |-> [views |-> 0, pc |-> "idle", data |-> EmptyObj]]

\* the settings tab with no modal open and no handler running
NoEdit ==
  [modals |-> <<>>,
   h |-> [i \in 1..MaxHandlers |->
            [kind |-> "none", pc |-> "idle", cmd |-> EmptyObj,
             existing |-> EmptyObj, calls |-> <<>>, files |-> EmptyObj,
             alone |-> TRUE, file |-> EmptyObj, todo |-> <<>>,
             names |-> {}]]]

\* the plugin is not loaded
NoPlugin == plugin = Unloaded /\ edit = NoEdit

Init ==
  /\ (InitSplit \/ InitState \/ InitContent)
  /\ InitCommon
  /\ NoFunctionCall
  /\ NoStoreCall
  /\ NoPlugin

Spec == Init /\ [][Next]_vars

\* the installations whose blob carries inline content
InitRecovery ==
  /\ ccFile = AbsentCC
  /\ clFile = AbsentClaudian
  /\ blob \in {BlobOf(s @@ c @@ v) :
                 s \in Opt("lastEnvHash", {"h2"}),
                 c \in Opt("slashCommands", SeqsUpTo({CmdFix, CmdReviewA}, MaxItems)),
                 v \in Opt("conversations", {<<ConvA>>})}
  /\ cmdFiles \in {NoCommandFiles,
                    [NoCommandFiles EXCEPT !["fix"] = EntityFile(CmdFix)]}
  /\ sessFiles = NoSessionFiles
  /\ InitCommon
  /\ NoFunctionCall
  /\ NoStoreCall
  /\ NoPlugin

\* the steps initialize() takes on such an installation
NextRecovery ==
  \/ Initialize
  \/ RunMigrationsCCExists
  \/ RunMigrationsClaudianExists
  \/ RunMigrationsLoadData
  \/ MigrateFromDataJsonLoad
  \/ MigrateFromDataJson
  \/ MigrateCommandExists
  \/ MigrateCommand
  \/ MigrateConversationExists
  \/ MigrateConversation
  \/ ClearLegacyDataJsonLoad
  \/ ClearLegacyDataJson
  \/ LoadCCSettings
  \/ LoadSettings

\* the awaited steps complete and the host keeps calling initialize()
SpecRecovery ==
  InitRecovery /\ [][NextRecovery]_vars /\ WF_vars(NextRecovery)

----------------------------------------------------------------------------
(* The conversion utilities called on their own, on inputs of every shape. *)

storageVars == <<ccFile, clFile, blob, cmdFiles, sessFiles, pc, dataJson, locals, idx,
                 hadErrors, pre, log, outcome, ret>>

\* the text {"key":"value"}
JsonObjectPattern == <<"{", "\"key\":\"value\"", "}">>

\* LegacyPermission records
LegacyPermissions ==
  [ toolName : {"Bash", "Read"},
    pattern : {<<>>, <<"*">>, <<"ls">>, JsonObjectPattern},
    scope : {"always", "session"} ]

\* lines of a free-text environment block
EnvLines ==
  { <<"A", "=", "1">>, <<"B", "=", "2">>, <<"A", "=", "9">>, <<"#", "c">>,
    <<>>, <<"junk">>, <<" ", "A", "=", "1", " ">>, <<"=", "x">>,
    <<"A", " ", "=", "1">> }

EnvTexts == {Join(ls) : ls \in SeqsUpTo(EnvLines, MaxEnvLines)}

EnvEntry(k, v) == [k |-> k, v |-> v]

\* values of the structured env field
EnvMaps ==
  { Obj(<<>>),
    Obj(<<EnvEntry(<<"A">>, Str(<<"3">>))>>),
    Obj(<<EnvEntry(<<"C">>, Str(<<"4", " ">>)), EnvEntry(<<"A">>, Str(<<"3">>))>>),
    Obj(<<EnvEntry(<<"A">>, NonStr(3))>>),
    Obj(<<EnvEntry(<<"C">>, NonStr(4)), EnvEntry(<<"B">>, Str(<<"5">>))>>),
    Obj(<<EnvEntry(<<>>, Str(<<"x">>))>>),
    Obj(<<EnvEntry(<<"#", "D">>, Str(<<"1">>)), EnvEntry(<<"B">>, Str(<<>>))>>),
    Obj(<<EnvEntry(<<"A">>, Str(<<"x", "=", "y">>))>>),
    Str(<<"A", "=", "3">>) }

\* the environment fields of a legacy settings.json
EnvSettings ==
  { t @@ e : t \in Opt("environmentVariables", EnvTexts), e \in Opt("env", EnvMaps) }

\* entries of a blocked-command list
BlockedItems ==
  { Str(<<"ls">>), Str(<<" ", "rm", " ", "-rf", " ">>), Str(<<" ">>), Str(<<>>),
    NonStr(7) }

BlockedLists == {List(l) : l \in SeqsUpTo(BlockedItems, MaxBlocked)}

\* values of a blockedCommands field: absent, flat list, keyed object, other
BlockedValues ==
  {[has |-> FALSE, value |-> List(<<>>)]}
    \cup {[has |-> TRUE, value |-> v] :
            v \in BlockedLists \cup {Str(<<"ls">>), NonStr(0)}
                  \cup { Obj(u @@ w) :
                          u \in Opt("unix", BlockedLists \cup {Str(<<"ls">>)}),
                          w \in Opt("windows",
                                    { List(<<>>), List(<<Str(<<" ", "del", " ">>)>>),
                                      NonStr(1) }) } }

FunctionCalls ==
  {[fn |-> "legacyPermissionsToCCPermissions", arg |-> a] :
      a \in SeqsUpTo(LegacyPermissions, MaxPerms)}
    \cup {[fn |-> "mergeEnvironment", arg |-> a] : a \in EnvSettings}
    \cup {[fn |-> "normalizeBlockedCommands", arg |-> a] : a \in BlockedValues}

InitFunctions ==
  /\ ccFile = AbsentCC
  /\ clFile = AbsentClaudian
  /\ blob = NoBlob
  /\ cmdFiles = NoCommandFiles
  /\ sessFiles = NoSessionFiles
  /\ InitCommon
  /\ call \in FunctionCalls
  /\ result = Pending
  /\ NoStoreCall
  /\ NoPlugin

ApplyLegacyPermissionsToCCPermissions ==
  /\ call.fn = "legacyPermissionsToCCPermissions" /\ ~result.done
  /\ result' = Returned(legacyPermissionsToCCPermissions(call.arg))
  /\ UNCHANGED <<storageVars, call, ops, plugin, edit>>

\* the environment merge of migrateFromOldSettingsJson
ApplyMergeEnvironment ==
  /\ call.fn = "mergeEnvironment" /\ ~result.done
  /\ result' = Returned(MergedEnvironmentVariables(call.arg))
  /\ UNCHANGED <<storageVars, call, ops, plugin, edit>>

ApplyNormalizeBlockedCommands ==
  /\ call.fn = "normalizeBlockedCommands" /\ ~result.done
  /\ result' = Returned(normalizeBlockedCommands(call.arg.has, call.arg.value))
  /\ UNCHANGED <<storageVars, call, ops, plugin, edit>>

NextFunctions ==
  \/ ApplyLegacyPermissionsToCCPermissions
  \/ ApplyMergeEnvironment
  \/ ApplyNormalizeBlockedCommands

SpecFunctions == InitFunctions /\ [][NextFunctions]_vars

----------------------------------------------------------------------------
(* ClaudianSettingsStorage called on its own.  Every caller makes one call; *)
(* update() suspends at its two awaits, so the calls of two callers that   *)
(* did not await each other may take their steps in any order.             *)

\* claudian-settings.json as earlier versions, runs or hand edits left it
StoredSettingsFiles ==
  { AbsentClaudian, CorruptClaudian,
    ClaudianFileOf(EmptyObj),
    ClaudianFileOf(("userName" :> "Bob") @@ ("lastEnvHash" :> "h1")
                     @@ ("activeConversationId" :> Str(<<"conv-1">>))),
    ClaudianFileOf(("activeConversationId" :> Null) @@ ("customKey" :> "kept")
                     @@ ("claudeCliPath" :> Null)),
    ClaudianFileOf(("userName" :> "Bob")
                     @@ ("blockedCommands" :>
                           List(<<Str(<<"rm", " ", "-rf">>), Str(<<" ", " ">>)>>))
                     @@ ("claudeCliPath" :> "/usr/bin/claude")),
    ClaudianFileOf(("blockedCommands" :>
                      Obj("unix" :> List(<<Str(<<" ", "ls", " ">>), NonStr(7)>>)))
                     @@ ("claudeCliPathsByHost" :>
                           Obj([hostA |-> Str(<<" ", "/a", " ">>),
                                hostB |-> Str(<<" ">>),
                                hostC |-> NonStr(1)]))
                     @@ ("claudeCliPath" :> NonStr(5))
                     @@ ("activeConversationId" :> Str(<<"conv-1">>))),
    ClaudianFileOf(Spread(DEFAULT_SETTINGS, [userName |-> "Bob"])) }

\* the partial records handed to update()
UpdateInputs ==
  { EmptyObj,
    [userName |-> "Cy"],
    [model |-> "opus", thinkingBudget |-> "high"],
    [blockedCommands |->
       Obj([unix |-> List(<<Str(<<" ", "ls", " ">>)>>), windows |-> List(<<>>)])] }

\* the blob next to the settings file
StoreBlobs ==
  { NoBlob,
    BlobOf(("activeConversationId" :> Str(<<"conv-2">>))
             @@ ("tabManagerState" :> "tabs")) }

InitStore ==
  /\ ccFile = AbsentCC
  /\ clFile \in StoredSettingsFiles
  /\ blob \in StoreBlobs
  /\ cmdFiles = NoCommandFiles
  /\ sessFiles = NoSessionFiles
  /\ InitCommon
  /\ NoFunctionCall
  /\ NoStoreCall
  /\ NoPlugin

\* what a call leaves in ops when it has ended
Ended_(op, how, v) == [op EXCEPT !.pc = how, !.ret = v]

\* mutant: update() saves the partial record alone
MergeUpdate_OnlyUpdates(current, updates) == updates

\* update: { ...current, ...updates }
MergeUpdate(current, updates) == Spread(current, updates)

\* ClaudianSettingsStorage.load()
StoreLoad(c) ==
  /\ ops[c].pc = "idle"
  /\ ops' = [ops EXCEPT ![c] =
               IF ClaudianLoadThrows(clFile)
               THEN Ended_([NoOp EXCEPT !.kind = "load", !.seen = clFile],
                           "threw", "error")
               ELSE Ended_([NoOp EXCEPT !.kind = "load", !.seen = clFile],
                           "returned", ClaudianLoad(clFile))]
  /\ UNCHANGED <<storageVars, call, result, plugin, edit>>

\* update(updates) up to its first await: const current = await this.load()
BeginUpdate(c, kind, updates) ==
  /\ ops[c].pc = "idle"
  /\ ops' = [ops EXCEPT ![c] =
               IF ClaudianLoadThrows(clFile)
               THEN Ended_([NoOp EXCEPT !.kind = kind, !.updates = updates,
                                        !.seen = clFile],
                           "threw", "error")
               ELSE [NoOp EXCEPT !.kind = kind, !.pc = "loaded",
                                 !.updates = updates, !.seen = clFile,
                                 !.current = ClaudianLoad(clFile)]]
  /\ UNCHANGED <<storageVars, call, result, plugin, edit>>

\* ClaudianSettingsStorage.update(updates)
Update(c) == \E updates \in UpdateInputs : BeginUpdate(c, "update", updates)

\* ClaudianSettingsStorage.setLastModel(model, isCustom)
SetLastModel(c) ==
  \E model \in {"sonnet", "c2"}, isCustom \in BOOLEAN :
    BeginUpdate(c, "setLastModel",
                IF isCustom THEN [lastCustomModel |-> model]
                ELSE [lastClaudeModel |-> model])

\* ClaudianSettingsStorage.setLastEnvHash(hash)
SetLastEnvHash(c) ==
  \E hash \in {"h2"} : BeginUpdate(c, "setLastEnvHash", [lastEnvHash |-> hash])

\* update: await this.save({ ...current, ...updates })
UpdateSave(c) ==
  /\ ops[c].pc = "loaded"
  /\ \E r \in {"ok", "throw"} :
       /\ clFile' = IF r = "ok"
                    THEN ClaudianFileOf(MergeUpdate(ops[c].current, ops[c].updates))
                    ELSE clFile
       /\ ops' = [ops EXCEPT ![c] =
                    IF Rejects(r) THEN Ended_(ops[c], "threw", "error")
                    ELSE Ended_(ops[c], "returned", "void")]
  /\ UNCHANGED <<ccFile, blob, cmdFiles, sessFiles, pc, dataJson, locals, idx,
                 hadErrors, pre, log, outcome, ret, call, result, plugin, edit>>

\* ClaudianSettingsStorage.getLegacyActiveConversationId on a readable file
StoredLegacyId(file) ==
  IF ~file.exists THEN Null
  ELSE IF Has(file.data, "activeConversationId")
          /\ file.data["activeConversationId"].t = "str"
       THEN file.data["activeConversationId"]
       ELSE Null

\* StorageService.getLegacyActiveConversationId: the id read from data.json
DataJsonLegacyId(b) ==
  LET data == loadDataJson(b)
  IN IF data.exists /\ Has(data.data, "activeConversationId")
        /\ data.data["activeConversationId"].t = "str"
     THEN data.data["activeConversationId"]
     ELSE Null

\* StorageService.getLegacyActiveConversationId: if (fromSettings)
FromSettings(fromSettings) == fromSettings.t = "str" /\ fromSettings.v # <<>>

\* StorageService.getLegacyActiveConversationId on a readable settings file,
\* when nothing is written between its two reads
LegacyActiveConversationId(file, b) ==
  IF FromSettings(StoredLegacyId(file)) THEN StoredLegacyId(file)
  ELSE DataJsonLegacyId(b)

\* StorageService.getLegacyActiveConversationId() up to the read of
\* claudian-settings.json, returning the id found there
GetLegacyActiveConversationId(c) ==
  /\ ops[c].pc = "idle"
  /\ ops' = [ops EXCEPT ![c] =
               LET op == [NoOp EXCEPT !.kind = "getLegacy", !.seen = clFile]
               IN IF ClaudianLoadThrows(clFile) THEN Ended_(op, "threw", "error")
                  ELSE IF FromSettings(StoredLegacyId(clFile))
                  THEN Ended_(op, "returned", StoredLegacyId(clFile))
                  ELSE [op EXCEPT !.pc = "getLoadData"]]
  /\ UNCHANGED <<storageVars, call, result, plugin, edit>>

\* StorageService.getLegacyActiveConversationId:
\* const dataJson = await this.loadDataJson(), and the id found there or null
GetLegacyLoadData(c) ==
  /\ ops[c].pc = "getLoadData"
  /\ ops' = [ops EXCEPT ![c] = Ended_(ops[c], "returned", DataJsonLegacyId(blob))]
  /\ UNCHANGED <<storageVars, call, result, plugin, edit>>

\* StorageService.clearLegacyActiveConversationId() up to the read of
\* claudian-settings.json in ClaudianSettingsStorage's method of that name:
\* the method returns when the file is absent or has no such key
ClearLegacyActiveConversationId(c) ==
  /\ ops[c].pc = "idle"
  /\ ops' = [ops EXCEPT ![c] =
               LET op == [NoOp EXCEPT !.kind = "clearLegacy", !.seen = clFile]
               IN IF ClaudianLoadThrows(clFile) THEN Ended_(op, "threw", "error")
                  ELSE IF clFile.exists /\ Has(clFile.data, "activeConversationId")
                  THEN [op EXCEPT !.pc = "clearWrite", !.current = clFile.data]
                  ELSE [op EXCEPT !.pc = "clearLoadData"]]
  /\ UNCHANGED <<storageVars, call, result, plugin, edit>>

\* ClaudianSettingsStorage.clearLegacyActiveConversationId:
\* delete stored.activeConversationId, then the write of the file
ClearLegacyWrite(c) ==
  /\ ops[c].pc = "clearWrite"
  /\ \E r \in {"ok", "throw"} :
       /\ clFile' = IF r = "ok"
                    THEN ClaudianFileOf(Without(ops[c].current,
                                                {"activeConversationId"}))
                    ELSE clFile
       /\ ops' = [ops EXCEPT ![c] =
                    IF Rejects(r) THEN Ended_(ops[c], "threw", "error")
                    ELSE [ops[c] EXCEPT !.pc = "clearLoadData"]]
  /\ UNCHANGED <<ccFile, blob, cmdFiles, sessFiles, pc, dataJson, locals, idx,
                 hadErrors, pre, log, outcome, ret, call, result, plugin, edit>>

\* StorageService.clearLegacyActiveConversationId:
\* const dataJson = await this.loadDataJson(), and the early return
ClearLegacyLoadData(c) ==
  /\ ops[c].pc = "clearLoadData"
  /\ ops' = [ops EXCEPT ![c] =
               LET data == loadDataJson(blob)
               IN IF data.exists /\ Has(data.data, "activeConversationId")
                  THEN [ops[c] EXCEPT !.pc = "clearSaveData", !.current = data.data]
                  ELSE Ended_(ops[c], "returned", "void")]
  /\ UNCHANGED <<storageVars, call, result, plugin, edit>>

\* StorageService.clearLegacyActiveConversationId:
\* delete cleaned.activeConversationId, then await this.plugin.saveData(cleaned)
ClearLegacySaveData(c) ==
  /\ ops[c].pc = "clearSaveData"
  /\ \E r \in {"ok", "throw"} :
       /\ blob' = IF r = "ok"
                  THEN BlobOf(Without(ops[c].current, {"activeConversationId"}))
                  ELSE blob
       /\ ops' = [ops EXCEPT ![c] =
                    IF Rejects(r) THEN Ended_(ops[c], "threw", "error")
                    ELSE Ended_(ops[c], "returned", "void")]
  /\ UNCHANGED <<ccFile, clFile, cmdFiles, sessFiles, pc, dataJson, locals, idx,
                 hadErrors, pre, log, outcome, ret, call, result, plugin, edit>>

\* the tab layouts the host hands to setTabManagerState
TabStates == {"tabs2"}

\* StorageService.setTabManagerState(state) up to
\* const data = (await this.plugin.loadData()) || {}
SetTabManagerState(c) ==
  /\ ops[c].pc = "idle"
  /\ \E state \in TabStates :
       ops' = [ops EXCEPT ![c] =
                 [NoOp EXCEPT !.kind = "setTabManagerState", !.pc = "tabSave",
                              !.updates = [tabManagerState |-> state],
                              !.current = IF loadDataJson(blob).exists
                                          THEN loadDataJson(blob).data
                                          ELSE EmptyObj]]
  /\ UNCHANGED <<storageVars, call, result, plugin, edit>>

\* setTabManagerState: data.tabManagerState = state, then
\* await this.plugin.saveData(data); an error is logged and swallowed
TabManagerStateSave(c) ==
  /\ ops[c].pc = "tabSave"
  /\ \E r \in {"ok", "throw"} :
       /\ blob' = IF r = "ok" THEN BlobOf(Spread(ops[c].current, ops[c].updates))
                  ELSE blob
       /\ ops' = [ops EXCEPT ![c] = Ended_(ops[c], "returned", "void")]
  /\ UNCHANGED <<ccFile, clFile, cmdFiles, sessFiles, pc, dataJson, locals, idx,
                 hadErrors, pre, log, outcome, ret, call, result, plugin, edit>>

NextStore ==
  \E c \in Callers :
    \/ StoreLoad(c)
    \/ Update(c)
    \/ SetLastModel(c)
    \/ SetLastEnvHash(c)
    \/ UpdateSave(c)
    \/ GetLegacyActiveConversationId(c)
    \/ GetLegacyLoadData(c)
    \/ ClearLegacyActiveConversationId(c)
    \/ ClearLegacyWrite(c)
    \/ ClearLegacyLoadData(c)
    \/ ClearLegacySaveData(c)
    \/ SetTabManagerState(c)
    \/ TabManagerStateSave(c)

SpecStore == InitStore /\ [][NextStore]_vars

----------------------------------------------------------------------------
(* The permission methods of StorageService on settings.json.              *)

\* AgentSettingsStore's permission methods, which StorageService hands on
\* (updatePermissions, addAllowRule, addDenyRule, removePermissionRule): the
\* store's code is not among the repository files; as the specification
\* words the store, settings.json is read, the permission lists are changed
\* and the file is saved with the schema reference and the permissions.

\* the rules handed to the permission methods
PermissionRules == {Rule("Bash", <<"ls">>), Rule("Read", <<>>)}

\* the permission objects handed to updatePermissions
PermissionInputs ==
  { DEFAULT_CC_PERMISSIONS.v,
    [allow |-> <<Rule("Read", <<>>)>>, deny |-> <<Rule("Bash", <<"rm">>)>>,
     ask |-> <<>>] }

\* the permissions the store reads from settings.json
StoredPermissions == CCLoad(ccFile)["permissions"].v

\* the rule is taken out of a list
WithoutRule(rules, rule) == SelectSeq(rules, LAMBDA r : r # rule)

\* one of the permission methods has read settings.json and holds the
\* permissions it is going to save
BeginPermissions(c, kind, permissions) ==
  /\ ops[c].pc = "idle"
  /\ ops' = [ops EXCEPT ![c] =
               [NoOp EXCEPT !.kind = kind, !.pc = "permissionsSave",
                            !.current = StoredPermissions,
                            !.updates = [permissions |-> permissions]]]
  /\ UNCHANGED <<storageVars, call, result, plugin, edit>>

\* StorageService.updatePermissions(permissions)
UpdatePermissions(c) ==
  \E permissions \in PermissionInputs :
    BeginPermissions(c, "updatePermissions", permissions)

\* StorageService.addAllowRule(rule), for a rule that is not yet allowed
AddAllowRule(c) ==
  \E rule \in PermissionRules :
    /\ rule \notin Range(StoredPermissions.allow)
    /\ BeginPermissions(c, "addAllowRule",
         [StoredPermissions EXCEPT !.allow = Append(@, rule)])

\* StorageService.addDenyRule(rule), for a rule that is not yet denied
AddDenyRule(c) ==
  \E rule \in PermissionRules :
    /\ rule \notin Range(StoredPermissions.deny)
    /\ BeginPermissions(c, "addDenyRule",
         [StoredPermissions EXCEPT !.deny = Append(@, rule)])

\* StorageService.removePermissionRule(rule): the rule leaves every list
RemovePermissionRule(c) ==
  \E rule \in PermissionRules :
    BeginPermissions(c, "removePermissionRule",
      [StoredPermissions EXCEPT !.allow = WithoutRule(@, rule),
                                !.deny = WithoutRule(@, rule),
                                !.ask = WithoutRule(@, rule)])

\* the write of settings.json that ends a permission method
PermissionsSave(c) ==
  /\ ops[c].pc = "permissionsSave"
  /\ \E r \in {"ok", "throw"} :
       /\ ccFile' = IF r = "ok"
                    THEN CCFileOf(CCSettings(Obj(ops[c].updates.permissions)))
                    ELSE ccFile
       /\ ops' = [ops EXCEPT ![c] =
                    IF Rejects(r) THEN Ended_(ops[c], "threw", "error")
                    ELSE Ended_(ops[c], "returned", "void")]
  /\ UNCHANGED <<clFile, blob, cmdFiles, sessFiles, pc, dataJson, locals, idx,
                 hadErrors, pre, log, outcome, ret, call, result, plugin, edit>>

\* settings.json before the permission methods are called
InitPermissions ==
  /\ ccFile \in { AbsentCC,
                   CCFileOf(CCSettings(Obj([allow |-> <<Rule("Read", <<>>)>>,
                                            deny |-> <<>>, ask |-> <<>>]))) }
  /\ clFile = ClaudianFileOf("userName" :> "Bob")
  /\ blob = NoBlob
  /\ cmdFiles = NoCommandFiles
  /\ sessFiles = NoSessionFiles
  /\ InitCommon
  /\ NoFunctionCall
  /\ NoStoreCall
  /\ NoPlugin

NextPermissions ==
  \E c \in Callers :
    \/ UpdatePermissions(c)
    \/ AddAllowRule(c)
    \/ AddDenyRule(c)
    \/ RemovePermissionRule(c)
    \/ PermissionsSave(c)

SpecPermissions == InitPermissions /\ [][NextPermissions]_vars

----------------------------------------------------------------------------
(* initialize() while other callers use the same files.  The plugin awaits *)
(* initialize() before it makes any other call (main.ts onload), so this   *)
(* is a use of StorageService that the plugin itself does not make: every  *)
(* step of a migration is an await, and a call made by another caller can  *)
(* run between the read a migration step made and the write that follows.  *)

\* an installation whose blob carries state and a command, already split
InitShared ==
  /\ ccFile = AbsentCC
  /\ clFile = ClaudianFileOf(("userName" :> "Bob") @@ ("lastEnvHash" :> ""))
  /\ blob = BlobOf(("lastEnvHash" :> "h2") @@ ("tabManagerState" :> "tabs")
                     @@ ("slashCommands" :> <<CmdFix>>))
  /\ cmdFiles = NoCommandFiles
  /\ sessFiles = NoSessionFiles
  /\ InitCommon
  /\ NoFunctionCall
  /\ NoStoreCall
  /\ NoPlugin

NextShared == NextRecovery \/ NextStore \/ NextPermissions

SpecShared == InitShared /\ [][NextShared]_vars

----------------------------------------------------------------------------
(* CommandStore / SessionStore as the specification words them (their code  *)
(* is not among the repository files): loadAll() lists the directory,      *)
(* parses every file and silently skips a file that fails to parse or      *)
(* fails the minimal shape check; save() and delete() write and remove a   *)
(* single file; an entity maps 1:1 to its file.                            *)

\* a file whose content does not parse
Garbage == [exists |-> TRUE, data |-> [garbage |-> TRUE]]

\* the content of the file parses
Parses(file) == ~Has(file.data, "garbage")

\* the minimal shape check of a command / of a conversation
IsCommand(data) == {"name", "content"} \subseteq DOMAIN data
IsConversation(data) == {"id", "title"} \subseteq DOMAIN data

\* the id of the command kept in a file: the store derives it from the path
CommandId(filePath) == <<"cmd", filePath>>

\* the command loadAll() reports for a file
LoadedCommand(filePath, data) ==
  [id |-> CommandId(filePath), name |-> data.name, content |-> data.content]

\* CommandStore.loadAll(); the order of the listing is not modelled
LoadAllCommands(files) ==
  { LoadedCommand(p, files[p].data) :
      p \in {q \in DOMAIN files :
               files[q].exists /\ Parses(files[q]) /\ IsCommand(files[q].data)} }

\* SessionStore.loadAllConversations()
LoadAllConversations(files) ==
  { files[p].data :
      p \in {q \in DOMAIN files :
               files[q].exists /\ Parses(files[q])
                 /\ IsConversation(files[q].data)} }

----------------------------------------------------------------------------
(* ClaudianPlugin.onload(): one action per awaited step.                   *)

\* a session of the provider that the environment of hash h configures
Session(h) == [t |-> "session", v |-> h]

\* conv.sessionId, null when the record has none
SessionIdOf(conv) == Coalesce(conv, "sessionId", Null)

\* the text that a token sequence stands for
RECURSIVE Text(_)
Text(toks) == IF toks = <<>> THEN "" ELSE Head(toks) \o Text(Tail(toks))

\* String.prototype.trim on a text
RECURSIVE TrimText(_)
TrimText(s) ==
  LET Whitespace == {" ", "\t", "\n", "\r"}
  IN IF s = "" THEN s
     ELSE IF SubSeq(s, 1, 1) \in Whitespace THEN TrimText(SubSeq(s, 2, Len(s)))
     ELSE IF SubSeq(s, Len(s), Len(s)) \in Whitespace
          THEN TrimText(SubSeq(s, 1, Len(s) - 1))
          ELSE s

\* utils/env parseEnvironmentVariables: a value wrapped in double or in
\* single quotes loses them, value.slice(1, -1)
StripQuotes(value) ==
  LET n == Len(value)
      last == value[n]
      StartsWith(ch) == value # <<>> /\ SubSeq(Head(value), 1, 1) = ch
      EndsWith(ch) == value # <<>> /\ SubSeq(last, Len(last), Len(last)) = ch
      DropLast(v) ==
        LET m == Len(v)
            l == v[m]
        IN IF Len(l) = 1 THEN SubSeq(v, 1, m - 1)
           ELSE SubSeq(v, 1, m - 1) \o <<SubSeq(l, 1, Len(l) - 1)>>
      dropFirst ==
        IF Len(Head(value)) = 1 THEN Tail(value)
        ELSE <<SubSeq(Head(value), 2, Len(Head(value)))>> \o Tail(value)
  IN IF \/ StartsWith("\"") /\ EndsWith("\"")
        \/ StartsWith("'") /\ EndsWith("'")
     THEN IF dropFirst = <<>> THEN <<>> ELSE DropLast(dropFirst)
     ELSE value

\* utils/env parseEnvironmentVariables: one pass of its loop
RECURSIVE ParseEnvLines(_, _)
ParseEnvLines(m, lines) ==
  IF lines = <<>> THEN m
  ELSE LET trimmed == Trim(Head(lines))
           eqIndex == IndexOfEq(trimmed)
           key == Trim(SubSeq(trimmed, 1, eqIndex - 1))
           value == StripQuotes(Trim(SubSeq(trimmed, eqIndex + 1, Len(trimmed))))
       IN IF trimmed = <<>> \/ Head(trimmed) = "#" \/ eqIndex <= 1 \/ key = <<>>
          THEN ParseEnvLines(m, Tail(lines))
          ELSE ParseEnvLines(MapSet(m, key, value), Tail(lines))

\* utils/env parseEnvironmentVariables
parseEnvironmentVariables(input) == ParseEnvLines(<<>>, Split(input))

\* envVars[key], the empty text when the key is not set
EnvVar(envVars, key) ==
  IF \E i \in DOMAIN envVars : Text(envVars[i].k) = key
  THEN Text((CHOOSE e \in Range(envVars) : Text(e.k) = key).v)
  ELSE ""

\* the pairs of the keys that are set, joined with '|'
RECURSIVE JoinPairs(_, _)
JoinPairs(envVars, keys) ==
  IF keys = <<>> THEN ""
  ELSE LET rest == JoinPairs(envVars, Tail(keys))
           value == EnvVar(envVars, Head(keys))
       IN IF value = "" THEN rest
          ELSE Head(keys) \o "=" \o value
                 \o (IF rest = "" THEN "" ELSE "|" \o rest)

\* computeEnvHash: modelKeys and providerKeys, in the order .sort() gives
\* their KEY=value pairs (no key is a prefix of another)
computeEnvHash(envText) ==
  JoinPairs(parseEnvironmentVariables(envText),
            << "ANTHROPIC_BASE_URL", "ANTHROPIC_DEFAULT_HAIKU_MODEL",
               "ANTHROPIC_DEFAULT_OPUS_MODEL", "ANTHROPIC_DEFAULT_SONNET_MODEL",
               "ANTHROPIC_MODEL" >>)

\* utils/env getModelsFromEnvironment: modelEnvEntries by falling type
\* priority (model 4, haiku 3, sonnet 2, opus 1)
ModelKeysByPriority ==
  << "ANTHROPIC_MODEL", "ANTHROPIC_DEFAULT_HAIKU_MODEL",
     "ANTHROPIC_DEFAULT_SONNET_MODEL", "ANTHROPIC_DEFAULT_OPUS_MODEL" >>

\* the values of the keys that are set, each value once
RECURSIVE ModelValues(_, _, _)
ModelValues(envVars, keys, seen) ==
  IF keys = <<>> THEN <<>>
  ELSE LET value == EnvVar(envVars, Head(keys))
       IN IF value = "" \/ value \in seen
          THEN ModelValues(envVars, Tail(keys), seen)
          ELSE <<value>> \o ModelValues(envVars, Tail(keys), seen \cup {value})

\* utils/env getModelsFromEnvironment: the values of the custom models,
\* sorted by the highest priority among the types that name them
getModelsFromEnvironment(envVars) == ModelValues(envVars, ModelKeysByPriority, {})

\* utils/env getCurrentModelFromEnvironment, "" standing for null
getCurrentModelFromEnvironment(envVars) ==
  LET set == {i \in DOMAIN ModelKeysByPriority :
                EnvVar(envVars, ModelKeysByPriority[i]) # ""}
  IN IF set = {} THEN ""
     ELSE EnvVar(envVars, ModelKeysByPriority[CHOOSE i \in set : \A j \in set : i <= j])

\* getPreferredCustomModel
getPreferredCustomModel(envVars, customModels) ==
  LET envPreferred == getCurrentModelFromEnvironment(envVars)
  IN IF envPreferred # "" /\ envPreferred \in Range(customModels)
     THEN envPreferred ELSE customModels[1]

\* getHostnameKey() and getCliPlatformKey() of the machine
Hostname == "hostA"
CliPlatform == "linux"

\* loadSettings: platformPaths?.[getCliPlatformKey()], null when there is
\* none; a string is given as its text
PlatformPath(settings) ==
  LET platformPaths == Coalesce(settings, "claudeCliPaths", Null)
      path == Coalesce(platformPaths.v, CliPlatform, Null)
  IN IF IsString(platformPaths) \/ platformPaths.t # "obj" THEN Null
     ELSE IF ~IsString(path) /\ path.t = "str" THEN Text(path.v)
     ELSE path

\* loadSettings: { ...DEFAULT_SETTINGS, ...claudian } with
\* claudeCliPathsByHost ??= {} (slashCommands is kept in plugin.slashCommands)
SpreadSettings(claudian) ==
  LET spread == Spread(DEFAULT_SETTINGS, claudian)
  IN IF IsNull(spread.claudeCliPathsByHost)
     THEN Spread(spread, [claudeCliPathsByHost |-> Obj(EmptyObj)])
     ELSE spread

\* loadSettings: claudeCliPathsByHost[hostname] is truthy (after `??= {}`)
HasHostPath(settings) ==
  LET byHost == settings.claudeCliPathsByHost
      path == byHost.v[Hostname]
  IN /\ ~IsNull(byHost)
     /\ Has(byHost.v, Hostname)
     /\ ~IsNull(path)
     /\ IF IsString(path) THEN path # "" ELSE path.t = "str" => Text(path.v) # ""

\* loadSettings: .trim() is called on a value that is neither a string nor
\* null, the TypeError leaves loadSettings
CliPathMigrationThrows(settings) ==
  LET platformPath == PlatformPath(settings)
      fromPlatform == IF IsString(platformPath) THEN TrimText(platformPath) ELSE ""
  IN /\ ~HasHostPath(settings)
     /\ \/ ~IsNull(platformPath) /\ ~IsString(platformPath)
        \/ /\ fromPlatform = ""
           /\ ~IsNull(settings.claudeCliPath)
           /\ ~IsString(settings.claudeCliPath)

\* loadSettings: migratedPath, "" when there is nothing to migrate
MigratedCliPath(settings) ==
  LET fromPlatform == IF IsString(PlatformPath(settings))
                      THEN TrimText(PlatformPath(settings)) ELSE ""
  IN IF fromPlatform # "" THEN fromPlatform
     ELSE IF IsString(settings.claudeCliPath)
          THEN TrimText(settings.claudeCliPath) ELSE ""

\* loadSettings: didMigrateCliPath
NeedsCliPathMigration(settings) ==
  /\ ~HasHostPath(settings)
  /\ MigratedCliPath(settings) # ""

\* loadSettings: this.settings after the merge and the CLI path migration
MergedSettings(claudian) ==
  LET merged == SpreadSettings(claudian)
      migrated ==
        IF NeedsCliPathMigration(merged)
        THEN Spread(merged,
               [claudeCliPathsByHost |->
                  Obj(Spread(merged.claudeCliPathsByHost.v,
                             Hostname :> Str(<<MigratedCliPath(merged)>>))),
                claudeCliPath |-> ""])
        ELSE merged
  IN Without(migrated, {"claudeCliPaths"})

\* reconcileModelWithEnvironment: currentHash !== savedHash
HashChanged(settings) ==
  LET savedHash == IF Truthy(settings.lastEnvHash) THEN settings.lastEnvHash ELSE ""
  IN computeEnvHash(settings.environmentVariables) # savedHash

\* reconcileModelWithEnvironment: the conversations whose sessionId it clears
Invalidated(conversations) ==
  {conv \in conversations : SessionIdOf(conv).t = "session"}

\* reconcileModelWithEnvironment: the settings it leaves
Reconciled(settings) ==
  LET envVars == parseEnvironmentVariables(settings.environmentVariables)
      customModels == getModelsFromEnvironment(envVars)
  IN IF ~HashChanged(settings) THEN settings
     ELSE Spread(settings,
            [model |-> IF customModels # <<>>
                       THEN getPreferredCustomModel(envVars, customModels)
                       ELSE DEFAULT_SETTINGS.model,
             lastEnvHash |-> computeEnvHash(settings.environmentVariables)])

\* mutant: loadSettings does not wait for initialize()
InitializeAwaited_NotAwaited == outcome # "threw"

\* const { claudian } = await this.storage.initialize() has returned
InitializeAwaited == pc = "idle" /\ outcome = "returned"

\* the host loads the plugin: onload() starts and constructs StorageService
Onload ==
  /\ plugin.pc \in {"unloaded", "failed", "loaded"}
  /\ pc = "idle"
  /\ plugin' = [Unloaded EXCEPT !.pc = "initialize",
                                !.userCalls = plugin.userCalls,
                                !.unloading = plugin.unloading]
  /\ outcome' = "none"
  /\ UNCHANGED <<ccFile, clFile, blob, cmdFiles, sessFiles, pc, dataJson, locals, idx,
                 hadErrors, pre, log, ret, call, result, ops, edit>>

\* loadSettings: await this.storage.initialize()
StartInitialize ==
  /\ plugin.pc = "initialize"
  /\ outcome = "none"
  /\ Initialize

\* initialize() threw: loadSettings and onload reject
OnloadRejected ==
  /\ plugin.pc = "initialize"
  /\ pc = "idle" /\ outcome = "threw"
  /\ plugin' = [plugin EXCEPT !.pc = "failed"]
  /\ UNCHANGED <<storageVars, call, result, ops, edit>>

\* the messages of an exchange that the assistant answered
UserMessage == [role |-> "user", timestamp |-> 1]
AssistantMessage == [role |-> "assistant", timestamp |-> 2]

\* loadSettings: commands.loadAll(), then the settings merge and the CLI path
\* migration; a TypeError of the migration leaves loadSettings with
\* this.settings assigned and claudeCliPaths not yet deleted
LoadSlashCommands ==
  /\ plugin.pc = "initialize"
  /\ InitializeAwaited
  /\ plugin' =
       IF CliPathMigrationThrows(SpreadSettings(ret.claudian))
       THEN [plugin EXCEPT !.pc = "failed",
                           !.events = Append(@, "commands.loadAll"),
                           !.slashCommands = LoadAllCommands(cmdFiles),
                           !.settings = SpreadSettings(ret.claudian)]
       ELSE [plugin EXCEPT
               !.pc = "conversations",
               !.events = Append(@, "commands.loadAll"),
               !.slashCommands = LoadAllCommands(cmdFiles),
               !.settings = MergedSettings(ret.claudian),
               !.didMigrateCliPath =
                  NeedsCliPathMigration(SpreadSettings(ret.claudian))]
  /\ UNCHANGED <<storageVars, call, result, ops, edit>>

\* the orders in which a directory listing may report the entities
Orderings(S) ==
  {s \in [1..Cardinality(S) -> S] : \A i, j \in DOMAIN s : s[i] = s[j] => i = j}

\* backfillConversationResponseTimestamps: the conversation has no
\* lastResponseAt and holds a message of the assistant
NeedsBackfill(conv) ==
  /\ IsNull(Coalesce(conv, "lastResponseAt", Null))
  /\ \E i \in DOMAIN Coalesce(conv, "messages", <<>>) :
       conv.messages[i].role = "assistant"

\* backfillConversationResponseTimestamps: lastResponseAt becomes the
\* timestamp of the last message of the assistant
BackfillConversation(conv) ==
  IF ~NeedsBackfill(conv) THEN conv
  ELSE LET last == CHOOSE i \in DOMAIN conv.messages :
                     /\ conv.messages[i].role = "assistant"
                     /\ \A j \in DOMAIN conv.messages :
                          conv.messages[j].role = "assistant" => j <= i
       IN Spread(conv, [lastResponseAt |-> conv.messages[last].timestamp])

\* reconcileModelWithEnvironment: if (conv.sessionId) conv.sessionId = null
InvalidateConversation(conv) ==
  IF SessionIdOf(conv).t = "session" THEN Spread(conv, [sessionId |-> Null])
  ELSE conv

\* loadSettings: sessions.loadAllConversations(), the backfill, the
\* reconciliation and conversationsToSave (backfilled first, then invalidated)
LoadConversations ==
  /\ plugin.pc = "conversations"
  /\ \E listing \in Orderings(LoadAllConversations(sessFiles)) :
       LET changed == HashChanged(plugin.settings)
           places == [i \in DOMAIN listing |-> i]
           isBackfilled(i) == NeedsBackfill(listing[i])
           isInvalidated(i) == changed /\ SessionIdOf(listing[i]).t = "session"
           after == [i \in DOMAIN listing |->
                       IF changed
                       THEN InvalidateConversation(BackfillConversation(listing[i]))
                       ELSE BackfillConversation(listing[i])]
           order == SelectSeq(places, isBackfilled)
                      \o SelectSeq(places, LAMBDA i : isInvalidated(i) /\ ~isBackfilled(i))
       IN plugin' = [plugin EXCEPT
                       !.pc = IF changed \/ plugin.didMigrateCliPath
                              THEN "saveSettings" ELSE "saveConversations",
                       !.events = Append(@, "sessions.loadAllConversations"),
                       !.conversations = after,
                       !.runtimeEnvironmentVariables =
                          plugin.settings.environmentVariables,
                       !.settings = Reconciled(@),
                       !.changed = changed,
                       !.toSave = [k \in DOMAIN order |-> after[order[k]]]]
  /\ UNCHANGED <<storageVars, call, result, ops, edit>>

\* loadSettings: if (changed || didMigrateCliPath) await this.saveSettings()
SaveSettings ==
  /\ plugin.pc = "saveSettings"
  /\ \E r \in {"ok", "throw"} :
       /\ clFile' = IF r = "ok" THEN ClaudianFileOf(plugin.settings) ELSE clFile
       /\ plugin' = [plugin EXCEPT
                       !.pc = IF Rejects(r) THEN "failed" ELSE "saveConversations",
                       !.events = Append(@, "saveSettings")]
  /\ UNCHANGED <<ccFile, blob, cmdFiles, sessFiles, pc, dataJson, locals, idx,
                 hadErrors, pre, log, outcome, ret, call, result, ops, edit>>

\* loadSettings: one pass of the loop over conversationsToSave
SaveConversation ==
  /\ plugin.pc = "saveConversations"
  /\ plugin.toSave # <<>>
  /\ \E r \in {"ok", "throw"} :
       LET conv == Head(plugin.toSave)
       IN /\ sessFiles' = IF r = "ok"
                          THEN [sessFiles EXCEPT ![SessionPath(conv.id)] = EntityFile(conv)]
                          ELSE sessFiles
          /\ plugin' = [plugin EXCEPT
                          !.pc = IF Rejects(r) THEN "failed" ELSE @,
                          !.events = Append(@, "saveConversation"),
                          !.toSave = Tail(@)]
  /\ UNCHANGED <<ccFile, clFile, blob, cmdFiles, pc, dataJson, locals, idx,
                 hadErrors, pre, log, outcome, ret, call, result, ops, edit>>

\* onload: await this.mcpService.loadServers()
LoadMcpServers ==
  /\ plugin.pc = "saveConversations"
  /\ plugin.toSave = <<>>
  /\ \E r \in {"ok", "throw"} :
       plugin' = [plugin EXCEPT
                    !.pc = IF Rejects(r) THEN "failed" ELSE "plugins",
                    !.events = Append(@, "mcpService.loadServers")]
  /\ UNCHANGED <<storageVars, call, result, ops, edit>>

\* this.settings.enabledPlugins, [] when the settings have none
EnabledPlugins(settings) == Get(settings, "enabledPlugins", <<>>)

\* onload: setEnabledPluginIds, await this.pluginManager.loadPlugins(); the
\* enabled plugins that are not installed any more are the unavailable ones
LoadPlugins ==
  /\ plugin.pc = "plugins"
  /\ \E r \in {"ok", "throw"},
        unavailable \in SUBSET Range(EnabledPlugins(plugin.settings)) :
       plugin' = [plugin EXCEPT
                    !.pc = IF Rejects(r) THEN "failed"
                           ELSE IF unavailable # {} THEN "savePlugins"
                           ELSE "register",
                    !.events = Append(@, "pluginManager.loadPlugins"),
                    !.unavailable = IF Rejects(r) THEN {} ELSE unavailable]
  /\ UNCHANGED <<storageVars, call, result, ops, edit>>

\* onload: the unavailable plugins leave settings.enabledPlugins, then
\* await this.saveSettings()
SaveEnabledPlugins ==
  /\ plugin.pc = "savePlugins"
  /\ \E r \in {"ok", "throw"} :
       LET settings ==
             Spread(plugin.settings,
                    [enabledPlugins |->
                       SelectSeq(EnabledPlugins(plugin.settings),
                                 LAMBDA id : id \notin plugin.unavailable)])
       IN /\ clFile' = IF r = "ok" THEN ClaudianFileOf(settings) ELSE clFile
          /\ plugin' = [plugin EXCEPT
                          !.pc = IF Rejects(r) THEN "failed" ELSE "register",
                          !.settings = settings,
                          !.events = Append(@, "saveSettings")]
  /\ UNCHANGED <<ccFile, blob, cmdFiles, sessFiles, pc, dataJson, locals, idx,
                 hadErrors, pre, log, outcome, ret, call, result, ops, edit>>

\* loadPluginCommands: the command that an enabled plugin brings
PluginCommand(id) ==
  [id |-> <<"plugin", id>>, name |-> id, content |-> "P"]

\* loadPluginSlashCommands: the vault commands (id not starting with
\* 'plugin-') followed by the commands of the enabled plugins that loaded
WithPluginCommands(commands, settings, unavailable) ==
  {cmd \in commands : cmd.id[1] # "plugin"}
    \cup {PluginCommand(id) : id \in Range(EnabledPlugins(settings)) \ unavailable}

\* onload: loadPluginSlashCommands(), this.registerView(...), the ribbon icon
\* and the commands
RegisterView ==
  /\ plugin.pc = "register"
  /\ plugin' = [plugin EXCEPT
                  !.pc = "settingTab",
                  !.slashCommands =
                     WithPluginCommands(@, plugin.settings, plugin.unavailable),
                  !.events = Append(@, "registerView")]
  /\ UNCHANGED <<storageVars, call, result, ops, edit>>

\* onload: this.addSettingTab(new ClaudianSettingTab(...))
AddSettingTab ==
  /\ plugin.pc = "settingTab"
  /\ plugin' = [plugin EXCEPT !.pc = "loaded",
                              !.events = Append(@, "addSettingTab")]
  /\ UNCHANGED <<storageVars, call, result, ops, edit>>

\* the plugin is loaded and a view or the settings tab makes a call on it
UserCall == plugin.pc = "loaded" /\ plugin.userCalls < MaxUserCalls

\* the environment blocks the user may enter
EnvironmentTexts ==
  { <<>>, <<"ANTHROPIC_MODEL", "=", "m1">>,
    <<"ANTHROPIC_BASE_URL", "=", "u1", "\n", " ", "ANTHROPIC_MODEL", " ", "=", "m1">> }

\* applyEnvironmentVariables(envText) up to await this.saveSettings(); the
\* calls that wait for their save are in plugin.applying
ApplyEnvironmentVariables ==
  /\ UserCall
  /\ \E envText \in EnvironmentTexts, r \in {"ok", "throw"} :
       /\ plugin' = [plugin EXCEPT
                       !.settings["environmentVariables"] = envText,
                       !.applying = IF Rejects(r) THEN @ ELSE @ \cup {envText},
                       !.userCalls = @ + 1]
       /\ clFile' = IF r = "ok" THEN ClaudianFileOf(plugin'.settings) ELSE clFile
  /\ UNCHANGED <<ccFile, blob, cmdFiles, sessFiles, pc, dataJson, locals, idx,
                 hadErrors, pre, log, outcome, ret, call, result, ops, edit>>

\* applyEnvironmentVariables after its save: the restart notice is shown once
ApplyEnvironmentVariablesNotice ==
  /\ plugin.pc = "loaded"
  /\ \E envText \in plugin.applying :
       plugin' = [plugin EXCEPT
                    !.applying = @ \ {envText},
                    !.hasNotifiedEnvChange =
                       envText # plugin.runtimeEnvironmentVariables]
  /\ UNCHANGED <<storageVars, call, result, ops, edit>>

\* the settings tab: this.plugin.settings.userName = value, then
\* await this.plugin.saveSettings()
SaveUserName ==
  /\ UserCall
  /\ \E value \in {"Zoe"}, r \in {"ok", "throw"} :
       /\ plugin' = [plugin EXCEPT !.settings["userName"] = value,
                                   !.userCalls = @ + 1]
       /\ clFile' = IF r = "ok" THEN ClaudianFileOf(plugin'.settings) ELSE clFile
  /\ UNCHANGED <<ccFile, blob, cmdFiles, sessFiles, pc, dataJson, locals, idx,
                 hadErrors, pre, log, outcome, ret, call, result, ops, edit>>

\* generateConversationId() and generateDefaultTitle() of the one
\* conversation a plugin start creates, and Date.now() at that time
NewConversationId == "conv-3"
DefaultTitle == "Oct 29, 09:00"
Now == 9

\* the place of the conversation with that id: conversations.findIndex
PlaceOfConversation(conversations, id) ==
  CHOOSE i \in DOMAIN conversations :
    /\ conversations[i].id = id
    /\ \A j \in DOMAIN conversations : conversations[j].id = id => i <= j

\* the ids of the conversations in memory
ConversationIds(conversations) == {conversations[i].id : i \in DOMAIN conversations}

\* SessionStorage.saveConversation(conv) and deleteConversation(id) as the
\* host ended them
SaveConversationFile(files, conv, r) ==
  IF r = "ok" THEN [files EXCEPT ![SessionPath(conv.id)] = EntityFile(conv)]
  ELSE files
DeleteConversationFile(files, id, r) ==
  IF r = "ok" THEN [files EXCEPT ![SessionPath(id)] = NoEntity] ELSE files

\* createConversation(): the new conversation goes first and is saved
CreateConversation ==
  /\ UserCall
  /\ NewConversationId \notin ConversationIds(plugin.conversations)
  /\ ~sessFiles[SessionPath(NewConversationId)].exists
  /\ \E r \in {"ok", "throw"} :
       LET conversation ==
             [id |-> NewConversationId, title |-> DefaultTitle,
              createdAt |-> Now, updatedAt |-> Now, sessionId |-> Null,
              messages |-> <<>>]
       IN /\ plugin' = [plugin EXCEPT !.conversations = <<conversation>> \o @,
                                      !.userCalls = @ + 1]
          /\ sessFiles' = SaveConversationFile(sessFiles, conversation, r)
  /\ UNCHANGED <<ccFile, clFile, blob, cmdFiles, pc, dataJson, locals, idx,
                 hadErrors, pre, log, outcome, ret, call, result, ops, edit>>

\* the titles the user may enter
Titles == {" renamed ", " "}

\* renameConversation(id, title)
RenameConversation ==
  /\ UserCall
  /\ \E id \in ConversationIds(plugin.conversations), title \in Titles,
        r \in {"ok", "throw"} :
       LET i == PlaceOfConversation(plugin.conversations, id)
           conversation ==
             Spread(plugin.conversations[i],
                    [title |-> IF TrimText(title) # "" THEN TrimText(title)
                               ELSE DefaultTitle,
                     updatedAt |-> Now])
       IN /\ plugin' = [plugin EXCEPT !.conversations[i] = conversation,
                                      !.userCalls = @ + 1]
          /\ sessFiles' = SaveConversationFile(sessFiles, conversation, r)
  /\ UNCHANGED <<ccFile, clFile, blob, cmdFiles, pc, dataJson, locals, idx,
                 hadErrors, pre, log, outcome, ret, call, result, ops, edit>>

\* the updates the chat view makes: the session of the running provider
\* after an answer, and the messages of the exchange
ConversationUpdates(runtime) ==
  { [sessionId |-> Session(computeEnvHash(runtime)),
     messages |-> <<UserMessage, AssistantMessage>>] }

\* updateConversation(id, updates): Object.assign(conversation, updates,
\* { updatedAt })
UpdateConversation ==
  /\ UserCall
  /\ \E id \in ConversationIds(plugin.conversations),
        updates \in ConversationUpdates(plugin.runtimeEnvironmentVariables),
        r \in {"ok", "throw"} :
       LET i == PlaceOfConversation(plugin.conversations, id)
           conversation ==
             Spread(Spread(plugin.conversations[i], updates), [updatedAt |-> Now])
       IN /\ plugin' = [plugin EXCEPT !.conversations[i] = conversation,
                                      !.userCalls = @ + 1]
          /\ sessFiles' = SaveConversationFile(sessFiles, conversation, r)
  /\ UNCHANGED <<ccFile, clFile, blob, cmdFiles, pc, dataJson, locals, idx,
                 hadErrors, pre, log, outcome, ret, call, result, ops, edit>>

\* deleteConversation(id), with no view open on the conversation
DeleteConversation ==
  /\ UserCall
  /\ \E id \in ConversationIds(plugin.conversations), r \in {"ok", "throw"} :
       LET i == PlaceOfConversation(plugin.conversations, id)
       IN /\ plugin' = [plugin EXCEPT
                          !.conversations =
                             SubSeq(@, 1, i - 1) \o SubSeq(@, i + 1, Len(@)),
                          !.userCalls = @ + 1]
          /\ sessFiles' = DeleteConversationFile(sessFiles, id, r)
  /\ UNCHANGED <<ccFile, clFile, blob, cmdFiles, pc, dataJson, locals, idx,
                 hadErrors, pre, log, outcome, ret, call, result, ops, edit>>

\* the host unloads the plugin: onunload() starts, and the host does not
\* wait for it; views is the number of open views that have a tab manager
Onunload ==
  /\ UserCall
  /\ plugin.unloading.pc = "idle"
  /\ \E views \in 0..MaxViews :
       plugin' = [plugin EXCEPT
                    !.pc = "unloaded",
                    !.userCalls = @ + 1,
                    !.unloading = [views |-> views,
                                   pc |-> IF views = 0 THEN "idle" ELSE "loadData",
                                   data |-> EmptyObj]]
  /\ UNCHANGED <<storageVars, call, result, ops, edit>>

\* onunload, setTabManagerState: const data = (await this.plugin.loadData()) || {}
OnunloadLoadData ==
  /\ plugin.unloading.pc = "loadData"
  /\ plugin' = [plugin EXCEPT
                  !.unloading.pc = "saveData",
                  !.unloading.data = IF loadDataJson(blob).exists
                                     THEN loadDataJson(blob).data
                                     ELSE EmptyObj]
  /\ UNCHANGED <<storageVars, call, result, ops, edit>>

\* onunload, setTabManagerState: data.tabManagerState = state, then
\* await this.plugin.saveData(data); an error is logged and swallowed, and
\* the loop goes to the next view
OnunloadSaveData ==
  /\ plugin.unloading.pc = "saveData"
  /\ \E state \in TabStates, r \in {"ok", "throw"} :
       blob' = IF r = "ok"
               THEN BlobOf(Spread(plugin.unloading.data, [tabManagerState |-> state]))
               ELSE blob
  /\ plugin' = [plugin EXCEPT
                  !.unloading = [views |-> plugin.unloading.views - 1,
                                 pc |-> IF plugin.unloading.views = 1 THEN "idle"
                                        ELSE "loadData",
                                 data |-> EmptyObj]]
  /\ UNCHANGED <<ccFile, clFile, cmdFiles, sessFiles, pc, dataJson, locals, idx,
                 hadErrors, pre, log, outcome, ret, call, result, ops, edit>>

NextStartup ==
  \/ Onload
  \/ Onunload
  \/ OnunloadLoadData
  \/ OnunloadSaveData
  \/ StartInitialize
  \/ RunMigrationsCCExists
  \/ RunMigrationsClaudianExists
  \/ RunMigrationsLoadData
  \/ SplitRead
  \/ SplitSaveClaudian
  \/ SplitVerify
  \/ SplitSaveCC
  \/ MigrateFromDataJsonLoad
  \/ MigrateFromDataJson
  \/ MigrateCommandExists
  \/ MigrateCommand
  \/ MigrateConversationExists
  \/ MigrateConversation
  \/ ClearLegacyDataJsonLoad
  \/ ClearLegacyDataJson
  \/ LoadCCSettings
  \/ LoadSettings
  \/ OnloadRejected
  \/ LoadSlashCommands
  \/ LoadConversations
  \/ SaveSettings
  \/ SaveConversation
  \/ LoadMcpServers
  \/ LoadPlugins
  \/ SaveEnabledPlugins
  \/ RegisterView
  \/ AddSettingTab
  \/ ApplyEnvironmentVariables
  \/ ApplyEnvironmentVariablesNotice
  \/ SaveUserName
  \/ CreateConversation
  \/ RenameConversation
  \/ UpdateConversation
  \/ DeleteConversation

\* conversations kept in session files, with the provider of their session
ConvM1 == [id |-> "conv-1", title |-> "first",
           sessionId |-> Session("ANTHROPIC_MODEL=m1")]
ConvN1 == [id |-> "conv-2", title |-> "third",
           sessionId |-> Session("ANTHROPIC_MODEL=m1")]
ConvNone == [id |-> "conv-2", title |-> "third", sessionId |-> Null]

\* a conversation that was answered and has no lastResponseAt yet
ConvAnswered ==
  [id |-> "conv-2", title |-> "third",
   sessionId |-> Session("ANTHROPIC_MODEL=m1"),
   messages |-> <<UserMessage, AssistantMessage, UserMessage>>]

StartupSessionPaths == {"conv-1", "conv-2", SessionPath(NewConversationId)}

\* the directories the plugin starts on
StartupCommandFiles ==
  { NoCommandFiles,
    [NoCommandFiles EXCEPT !["review"] = EntityFile(CmdReviewA),
                           !["fix"] = Garbage] }

StartupSessionFiles ==
  LET none == [p \in StartupSessionPaths |-> NoEntity]
  IN { none,
       [none EXCEPT !["conv-1"] = EntityFile(ConvM1), !["conv-2"] = EntityFile(ConvN1)],
       [none EXCEPT !["conv-1"] = EntityFile(ConvM1),
                    !["conv-2"] = EntityFile(ConvAnswered)],
       [none EXCEPT !["conv-1"] = Garbage, !["conv-2"] = EntityFile(ConvNone)] }

\* claudian-settings.json of an installation whose sessions, if any, were
\* created under ANTHROPIC_MODEL=m1
StartupSettingsFiles ==
  { ClaudianFileOf(("environmentVariables" :> <<"ANTHROPIC_MODEL", "=", "m1">>)
                     @@ ("lastEnvHash" :> "ANTHROPIC_MODEL=m1")
                     @@ ("claudeCliPathsByHost" :> Obj([hostA |-> Str(<<"/h">>)]))
                     @@ ("claudeCliPath" :> "/x")
                     @@ ("enabledPlugins" :> <<"p1", "p2">>)),
    ClaudianFileOf(("environmentVariables" :> <<"ANTHROPIC_MODEL", "=", "m2">>)
                     @@ ("lastEnvHash" :> "ANTHROPIC_MODEL=m1")
                     @@ ("activeConversationId" :> Str(<<"conv-1">>))
                     @@ ("claudeCliPath" :> "  ")),
    ClaudianFileOf(("environmentVariables" :>
                      <<"ANTHROPIC_MODEL", "=", "\"", "m1", "\"">>)
                     @@ ("lastEnvHash" :> "ANTHROPIC_MODEL=m1")
                     @@ ("claudeCliPaths" :> Obj([linux |-> " "]))
                     @@ ("claudeCliPath" :> " /c ")),
    ClaudianFileOf(("claudeCliPaths" :> Obj([linux |-> NonStr(5)]))) }

InitStartup ==
  /\ \E inst \in
        { [cc |-> AbsentCC, cl |-> AbsentClaudian, blob |-> NoBlob],
          [cc |-> CCFileOf(("userName" :> "Ann")
                             @@ ("permissions" :> List(<<PermAlways>>))),
           cl |-> AbsentClaudian, blob |-> NoBlob],
          [cc |-> AbsentCC, cl |-> AbsentClaudian,
           blob |-> BlobOf(("lastEnvHash" :> "h2")
                             @@ ("slashCommands" :> <<CmdFix>>)
                             @@ ("conversations" :> <<ConvA>>))] }
          \cup {[cc |-> CCFileOf(CCSettings(DEFAULT_CC_PERMISSIONS)), cl |-> f,
                 blob |-> NoBlob] : f \in StartupSettingsFiles} :
       /\ ccFile = inst.cc
       /\ clFile = inst.cl
       /\ blob = inst.blob
       /\ cmdFiles \in StartupCommandFiles
       /\ sessFiles \in
            IF inst.cl.exists THEN StartupSessionFiles
            ELSE {[p \in StartupSessionPaths |-> NoEntity]}
  /\ InitCommon
  /\ NoFunctionCall
  /\ NoStoreCall
  /\ NoPlugin

SpecStartup == InitStartup /\ [][NextStartup]_vars

----------------------------------------------------------------------------
(* SlashCommandSettings: the settings tab saves, renames, deletes and       *)
(* imports commands through storage.commands.  No handler waits for the    *)
(* others: the modal does not await onSave and the buttons stay enabled,    *)
(* so every handler is a process of its own that takes one step per        *)
(* awaited store call.  handler.calls is the list of store calls it made,  *)
(* handler.files the command files as they were when it started, and       *)
(* handler.alone tells that no other handler ran while it did, nor, for    *)
(* a handler of a modal, while that modal was open.  edit.modals are the   *)
(* open modals, each with the command it was opened on.                    *)

\* the names and bodies typed into the modal: "re view" fails the name
\* pattern, and " " is an empty prompt
EditNames == {"review", "Review", "fix", "Fix", "plan"}
TypedNames == {" review ", "Review", "fix", "re view", ""}
EditContents == {"B", " "}

\* the id the modal and the import give a command that did not exist before
FreshId == <<"fresh">>

\* String.prototype.toLowerCase
RECURSIVE ToLowerCase(_)
ToLowerCase(s) ==
  LET upper == "ABCDEFGHIJKLMNOPQRSTUVWXYZ"
      lower == "abcdefghijklmnopqrstuvwxyz"
      c == SubSeq(s, 1, 1)
      at == {i \in 1..26 : SubSeq(upper, i, i) = c}
  IN IF s = "" THEN ""
     ELSE (IF at = {} THEN c ELSE SubSeq(lower, CHOOSE i \in at : TRUE, CHOOSE i \in at : TRUE))
            \o ToLowerCase(SubSeq(s, 2, Len(s)))

\* /^[a-zA-Z0-9_/-]+$/.test(name)
ValidCommandName(name) ==
  LET allowed == "abcdefghijklmnopqrstuvwxyzABCDEFGHIJKLMNOPQRSTUVWXYZ0123456789_/-"
  IN /\ name # ""
     /\ \A i \in 1..Len(name) :
          \E j \in 1..Len(allowed) : SubSeq(name, i, i) = SubSeq(allowed, j, j)

\* parseSlashCommandContent(content).promptContent of a body that has no
\* frontmatter
PromptContent(content) == content

\* a call of the command store and how it ended
StoreCall(op, r) == [op |-> op, r |-> r]

\* CommandStore.save(cmd): the file of the command is written
SaveCommandFile(files, cmd) ==
  [p \in DOMAIN files \cup {CommandPath(cmd)} |->
     IF p = CommandPath(cmd) THEN EntityFile(cmd) ELSE files[p]]

\* CommandStore.delete(id): the file of that entity is removed, and nothing
\* happens when there is none
DeleteCommandFile(files, id) ==
  [p \in DOMAIN files |->
     IF files[p].exists /\ CommandId(p) = id THEN NoEntity ELSE files[p]]

\* the modal's duplicate check over the in-memory commands
NameTaken(commands, name, existing) ==
  \E c \in commands :
    /\ ToLowerCase(c.name) = ToLowerCase(name)
    /\ existing = EmptyObj \/ c.id # existing.id

\* saveCommand: if (existing && existing.name !== cmd.name)
ShouldDeleteOld(cmd, existing) ==
  existing # EmptyObj /\ existing.name # cmd.name

\* the handlers of the settings tab, in the order in which they start
Handlers == 1..MaxHandlers

\* a handler that is not running
IdleHandler ==
  [kind |-> "none", pc |-> "idle", cmd |-> EmptyObj, existing |-> EmptyObj,
   calls |-> <<>>, files |-> EmptyObj, alone |-> TRUE, file |-> EmptyObj,
   todo |-> <<>>, names |-> {}]

\* the handler is between its start and its end
Running(handler) == handler.pc \notin {"idle", "done", "threw", "caught"}

\* a listener starts handler h as started: the handlers that are running
\* are not alone any more
StartHandler(h, started) ==
  [k \in Handlers |->
     IF k = h
     THEN [started EXCEPT
             !.alone = started.alone /\ \A j \in Handlers \ {h} : ~Running(edit.h[j]),
             !.files = cmdFiles]
     ELSE IF Running(edit.h[k]) THEN [edit.h[k] EXCEPT !.alone = FALSE]
     ELSE edit.h[k]]

\* the sequence without its i-th element
RemoveAt(seq, i) == SubSeq(seq, 1, i - 1) \o SubSeq(seq, i + 1, Len(seq))

\* the open modals once a handler has started: none of them is alone
NotAlone(modals) ==
  [i \in DOMAIN modals |-> [modals[i] EXCEPT !.alone = FALSE]]

\* the handler that the next listener starts
FreeHandler(h) ==
  /\ edit.h[h].pc = "idle"
  /\ \A k \in Handlers : k < h => edit.h[k].pc # "idle"

\* the Add button and the Edit button of a listed command:
\* openCommandModal, which opens one more modal
OpenCommandModal ==
  /\ plugin.pc = "loaded"
  /\ Len(edit.modals) < MaxModals
  /\ \E existingCmd \in plugin.slashCommands \cup {EmptyObj} :
       edit' = [edit EXCEPT
                  !.modals = Append(@, [existingCmd |-> existingCmd,
                                        alone |-> \A h \in Handlers :
                                                    ~Running(edit.h[h])])]
  /\ UNCHANGED <<storageVars, call, result, ops, plugin>>

\* the Cancel button and the Escape key of modal m
CloseCommandModal(m) ==
  /\ m \in DOMAIN edit.modals
  /\ edit' = [edit EXCEPT !.modals = RemoveAt(@, m)]
  /\ UNCHANGED <<storageVars, call, result, ops, plugin>>

\* the Save button of modal m: the checks, this.onSave(cmd), this.close();
\* saveCommand starts and is not awaited
ClickSave(m, h) ==
  /\ m \in DOMAIN edit.modals
  /\ FreeHandler(h)
  /\ \E typed \in TypedNames, content \in EditContents :
       LET name == TrimText(typed)
           existing == edit.modals[m].existingCmd
           cmd == [id |-> IF existing = EmptyObj THEN FreshId ELSE existing.id,
                   name |-> name, content |-> PromptContent(content)]
       IN /\ name # ""
          /\ TrimText(content) # ""
          /\ ValidCommandName(name)
          /\ ~NameTaken(plugin.slashCommands, name, existing)
          /\ edit' = [modals |-> NotAlone(RemoveAt(edit.modals, m)),
                       h |-> StartHandler(h, [IdleHandler EXCEPT
                                                 !.kind = "save", !.pc = "save",
                                                 !.alone = edit.modals[m].alone,
                                                 !.cmd = cmd,
                                                 !.existing = existing])]
  /\ UNCHANGED <<storageVars, call, result, ops, plugin>>

\* saveCommand: await this.plugin.storage.commands.save(cmd)
SaveCommand(h) ==
  /\ edit.h[h].kind = "save" /\ edit.h[h].pc = "save"
  /\ \E r \in {"ok", "throw"} :
       /\ cmdFiles' = IF r = "ok" THEN SaveCommandFile(cmdFiles, edit.h[h].cmd)
                       ELSE cmdFiles
       /\ edit' = [edit EXCEPT
                     !.h[h].pc =
                        IF Rejects(r) THEN "threw"
                        ELSE IF ShouldDeleteOld(edit.h[h].cmd, edit.h[h].existing)
                        THEN "delete" ELSE "reload",
                     !.h[h].calls = Append(@, StoreCall("save", r))]
  /\ UNCHANGED <<ccFile, clFile, blob, sessFiles, pc, dataJson, locals, idx, hadErrors,
                 pre, log, outcome, ret, call, result, ops, plugin>>

\* saveCommand: await this.plugin.storage.commands.delete(existing.id)
DeleteOldCommand(h) ==
  /\ edit.h[h].kind = "save" /\ edit.h[h].pc = "delete"
  /\ \E r \in {"ok", "throw"} :
       /\ cmdFiles' = IF r = "ok"
                       THEN DeleteCommandFile(cmdFiles, edit.h[h].existing.id)
                       ELSE cmdFiles
       /\ edit' = [edit EXCEPT
                     !.h[h].pc = IF Rejects(r) THEN "threw" ELSE "reload",
                     !.h[h].calls = Append(@, StoreCall("delete", r))]
  /\ UNCHANGED <<ccFile, clFile, blob, sessFiles, pc, dataJson, locals, idx, hadErrors,
                 pre, log, outcome, ret, call, result, ops, plugin>>

\* the delete button of a listed command: deleteCommand starts
ClickDelete(h) ==
  /\ plugin.pc = "loaded"
  /\ FreeHandler(h)
  /\ \E cmd \in plugin.slashCommands :
       edit' = [edit EXCEPT
                  !.modals = NotAlone(@),
                  !.h = StartHandler(h, [IdleHandler EXCEPT
                                           !.kind = "delete", !.pc = "delete",
                                           !.cmd = cmd])]
  /\ UNCHANGED <<storageVars, call, result, ops, plugin>>

\* deleteCommand: await this.plugin.storage.commands.delete(cmd.id)
DeleteCommand(h) ==
  /\ edit.h[h].kind = "delete" /\ edit.h[h].pc = "delete"
  /\ \E r \in {"ok", "throw"} :
       /\ cmdFiles' = IF r = "ok"
                       THEN DeleteCommandFile(cmdFiles, edit.h[h].cmd.id)
                       ELSE cmdFiles
       /\ edit' = [edit EXCEPT
                     !.h[h].pc = IF Rejects(r) THEN "threw" ELSE "reload",
                     !.h[h].calls = Append(@, StoreCall("delete", r))]
  /\ UNCHANGED <<ccFile, clFile, blob, sessFiles, pc, dataJson, locals, idx, hadErrors,
                 pre, log, outcome, ret, call, result, ops, plugin>>

\* the files the user may import: text that is no array, and arrays of
\* entries of which some lack a field, have a name that is no string or
\* fails the pattern, or repeat a name in another case
ImportFiles ==
  { [array |-> FALSE, commands |-> <<>>],
    [array |-> TRUE,
     commands |-> << [name |-> "plan", content |-> "I"],
                     [content |-> "I"],
                     [name |-> NonStr(1), content |-> "I"] >>],
    [array |-> TRUE,
     commands |-> << [name |-> "re view", content |-> "I"],
                     [name |-> "Fix", content |-> "I"],
                     [name |-> "fix", content |-> "I"] >>] }

\* importCommands: the entry has a name and a content, both strings, and
\* the name matches the pattern
ImportableEntry(entry) ==
  /\ Has(entry, "name") /\ Has(entry, "content")
  /\ IsString(entry.name) /\ IsString(entry.content)
  /\ entry.name # "" /\ entry.content # ""
  /\ ValidCommandName(entry.name)

\* importCommands: the entries from the first one that is saved
RECURSIVE ToImport(_, _)
ToImport(entries, existingNames) ==
  IF entries = <<>> THEN <<>>
  ELSE IF /\ ImportableEntry(Head(entries))
          /\ ToLowerCase(Head(entries).name) \notin existingNames
       THEN entries
       ELSE ToImport(Tail(entries), existingNames)

\* the import button, once the file was chosen: the change listener
\* starts and awaits file.text()
ClickImport(h) ==
  /\ plugin.pc = "loaded"
  /\ FreeHandler(h)
  /\ \E file \in ImportFiles :
       edit' = [edit EXCEPT
                  !.modals = NotAlone(@),
                  !.h = StartHandler(h, [IdleHandler EXCEPT
                                           !.kind = "import", !.pc = "text",
                                           !.file = file])]
  /\ UNCHANGED <<storageVars, call, result, ops, plugin>>

\* importCommands: file.text() returns, JSON.parse and the array check,
\* whose failure the handler catches
ImportText(h) ==
  /\ edit.h[h].kind = "import" /\ edit.h[h].pc = "text"
  /\ edit' = [edit EXCEPT
                !.h[h].pc = IF edit.h[h].file.array THEN "existing" ELSE "caught",
                !.h[h].todo = edit.h[h].file.commands]
  /\ UNCHANGED <<storageVars, call, result, ops, plugin>>

\* importCommands: existingCommands = await commands.loadAll()
ImportLoadExisting(h) ==
  /\ edit.h[h].kind = "import" /\ edit.h[h].pc = "existing"
  /\ edit' = [edit EXCEPT
                !.h[h].pc = "import",
                !.h[h].names = {ToLowerCase(c.name) : c \in LoadAllCommands(cmdFiles)},
                !.h[h].calls = Append(@, StoreCall("loadAll", "ok"))]
  /\ UNCHANGED <<storageVars, call, result, ops, plugin>>

\* importCommands: the loop up to the next await commands.save(cmd); a
\* save that throws ends the handler in its catch
ImportSave(h) ==
  /\ edit.h[h].kind = "import" /\ edit.h[h].pc = "import"
  /\ ToImport(edit.h[h].todo, edit.h[h].names) # <<>>
  /\ \E r \in {"ok", "throw"} :
       LET entries == ToImport(edit.h[h].todo, edit.h[h].names)
           cmd == [id |-> FreshId, name |-> Head(entries).name,
                   content |-> PromptContent(Head(entries).content)]
       IN /\ cmdFiles' = IF r = "ok" THEN SaveCommandFile(cmdFiles, cmd)
                          ELSE cmdFiles
          /\ edit' = [edit EXCEPT
                        !.h[h].pc = IF Rejects(r) THEN "caught" ELSE "import",
                        !.h[h].cmd = cmd,
                        !.h[h].todo = Tail(entries),
                        !.h[h].names = IF Rejects(r) THEN @
                                       ELSE @ \cup {ToLowerCase(cmd.name)},
                        !.h[h].calls = Append(@, StoreCall("save", r))]
  /\ UNCHANGED <<ccFile, clFile, blob, sessFiles, pc, dataJson, locals, idx, hadErrors,
                 pre, log, outcome, ret, call, result, ops, plugin>>

\* reloadCommands() at the end of saveCommand, deleteCommand and
\* importCommands, then render() and the notice
ReloadCommands(h) ==
  /\ \/ edit.h[h].pc = "reload"
     \/ /\ edit.h[h].kind = "import" /\ edit.h[h].pc = "import"
        /\ ToImport(edit.h[h].todo, edit.h[h].names) = <<>>
  /\ plugin' = [plugin EXCEPT !.slashCommands = LoadAllCommands(cmdFiles)]
  /\ edit' = [edit EXCEPT !.h[h].pc = "done",
                          !.h[h].calls = Append(@, StoreCall("loadAll", "ok"))]
  /\ UNCHANGED <<storageVars, call, result, ops>>

NextCommands ==
  \/ OpenCommandModal
  \/ \E m \in 1..MaxModals :
       \/ CloseCommandModal(m)
       \/ \E h \in Handlers : ClickSave(m, h)
  \/ \E h \in Handlers :
       \/ ImportText(h)
       \/ SaveCommand(h)
       \/ DeleteOldCommand(h)
       \/ ClickDelete(h)
       \/ DeleteCommand(h)
       \/ ClickImport(h)
       \/ ImportLoadExisting(h)
       \/ ImportSave(h)
       \/ ReloadCommands(h)

\* the command directories the settings tab opens on
EditCommandFiles ==
  LET none == [p \in EditNames |-> NoEntity]
      A(name) == EntityFile([name |-> name, content |-> "A"])
  IN { none,
       [none EXCEPT !["review"] = A("review")],
       [none EXCEPT !["review"] = A("review"), !["fix"] = A("fix")],
       [none EXCEPT !["review"] = A("review"), !["fix"] = Garbage],
       [none EXCEPT !["Review"] = A("Review"), !["plan"] = A("plan")] }

\* the plugin is loaded and shows the commands of the directory
InitCommands ==
  /\ ccFile = AbsentCC
  /\ clFile = AbsentClaudian
  /\ blob = NoBlob
  /\ cmdFiles \in EditCommandFiles
  /\ sessFiles = NoSessionFiles
  /\ InitCommon
  /\ NoFunctionCall
  /\ NoStoreCall
  /\ plugin = [Unloaded EXCEPT !.pc = "loaded",
                               !.slashCommands = LoadAllCommands(cmdFiles)]
  /\ edit = NoEdit

SpecCommands == InitCommands /\ [][NextCommands]_vars

----------------------------------------------------------------------------
(* Vocabulary of the properties *)

\* no call is running and the last one has ended
Ended == pc = "idle" /\ outcome \in {"returned", "threw"}

Logged(w) == \E i \in DOMAIN log : log[i] = w

LoggedTo(t) == \E i \in DOMAIN log : log[i].t = t

\* the split migration found tool-private fields in the call's settings.json
SplitApplies ==
  pre.cc.exists /\ ~pre.cl.exists /\ hasClaudianFields(pre.cc.data)

\* the split migration ran to its end: settings.json was rewritten
SplitCompleted == Logged(W("cc", "", "ok"))

\* some command or conversation write threw in this call
ItemWriteThrew ==
  \E i \in DOMAIN log : log[i].t \in {"command", "session"} /\ log[i].r = "throw"

StateFields == {"lastEnvHash", "lastClaudeModel", "lastCustomModel"}

----------------------------------------------------------------------------
(* C1: in the split migration, when the write of claudian-settings.json    *)
(* throws or its read-back fails, initialize() throws and settings.json is *)
(* what it was before the call; no write to settings.json is issued before *)
(* claudian-settings.json was written and read back successfully.          *)
C1_VerificationGate ==
  /\ (Logged(W("claudian", "split", "throw"))
        \/ (Logged(W("claudian", "split", "corrupt")) /\ pc # "verify"))
       => (outcome = "threw" /\ ccFile = pre.cc /\ ~LoggedTo("cc"))
  /\ \A i \in DOMAIN log :
       log[i].t = "cc" =>
         /\ i >= 3
         /\ log[i - 2].t = "claudian" /\ log[i - 2].r # "throw"
         /\ log[i - 1] = W("verify", "", "ok")

\* the read-back of a corrupt claudian-settings.json failed and aborted the
\* call with settings.json still holding its tool-private fields
C1_Witness ==
  /\ Ended /\ SplitApplies
  /\ Logged(W("claudian", "split", "corrupt"))
  /\ Logged(W("verify", "", "throw"))
  /\ outcome = "threw"
  /\ ccFile = pre.cc

(* C2: when the save of claudian-settings.json returns without persisting  *)
(* the file, the split migration does not rewrite settings.json.           *)
C2_SilentWriteProtected ==
  (Logged(W("claudian", "split", "silent")) /\ ~clFile.exists)
    => (~LoggedTo("cc") /\ ccFile = pre.cc)

\* the tool-private fields the split migration copies without converting
CopiedFields ==
  MIGRATABLE_CLAUDIAN_FIELDS \ {"blockedCommands", "environmentVariables", "env"}

(* C3: after the split migration every migratable tool-private field of    *)
(* claudian-settings.json holds the legacy file's value when the legacy    *)
(* file had the field, and its default otherwise.                          *)
C3_Conservation ==
  (SplitCompleted /\ Logged(W("claudian", "split", "ok")))
    => \A f \in CopiedFields :
         IF Has(pre.cc.data, f)
         THEN Has(clFile.data, f) /\ clFile.data[f] = pre.cc.data[f]
         ELSE Has(DEFAULT_SETTINGS, f)
                => (Has(clFile.data, f) /\ clFile.data[f] = DEFAULT_SETTINGS[f])

(* C4: once the split migration has completed, settings.json holds the     *)
(* schema reference and the permissions and no tool-private key.           *)
C4_Disjointness ==
  SplitCompleted
    => /\ DOMAIN ccFile.data = {"$schema", "permissions"}
       /\ DOMAIN ccFile.data \cap CLAUDIAN_ONLY_FIELDS = {}

\* a combined file with tool-private and deprecated keys was rewritten
C4_Witness ==
  /\ SplitCompleted
  /\ {"userName", "showToolUse", "env"} \subseteq DOMAIN pre.cc.data
  /\ ccFile # pre.cc

\* the blob was handed to plugin.saveData in this call
BlobWritten == LoggedTo("blob")

\* the blob of the call carried bookkeeping fields or non-empty inline content
BlobCarried ==
  /\ pre.blob.exists
  /\ \/ \E k \in StateFields : Has(pre.blob.data, k)
     \/ Len(Coalesce(pre.blob.data, "slashCommands", <<>>)) > 0
     \/ Len(Coalesce(pre.blob.data, "conversations", <<>>)) > 0

(* C5 as stated: in every initialize() the blob is written if and only if  *)
(* it carried bookkeeping fields or inline content and no item write threw.*)
C5_ClearGateAnyCall ==
  Ended => (BlobWritten <=> (BlobCarried /\ ~ItemWriteThrew))

(* C5 amended: in an initialize() that returns normally the blob is        *)
(* written if and only if it carried bookkeeping fields or inline content  *)
(* and no item write threw; in any call, once an item write has thrown the *)
(* blob is not written.                                                    *)
C5_ClearGate ==
  /\ (Ended /\ outcome = "returned")
       => (BlobWritten <=> (BlobCarried /\ ~ItemWriteThrew))
  /\ ItemWriteThrew => (~BlobWritten /\ blob = pre.blob)

\* a call returned with a failed item write and the blob, which carried
\* bookkeeping fields too, was left as it was
C5_Witness ==
  /\ Ended /\ outcome = "returned"
  /\ ItemWriteThrew
  /\ \E k \in StateFields : Has(pre.blob.data, k)
  /\ ~BlobWritten
  /\ blob = pre.blob

(* C6: whenever a call removes the command array or the conversation array *)
(* from the blob, every command and conversation that was in the blob is   *)
(* in the file at its target path.                                         *)
C6_NoContentLoss ==
  Logged(W("blob", "", "ok"))
    => /\ \A c \in Range(Coalesce(pre.blob.data, "slashCommands", <<>>)) :
            cmdFiles[CommandPath(c)] = EntityFile(c)
       /\ \A c \in Range(Coalesce(pre.blob.data, "conversations", <<>>)) :
            sessFiles[SessionPath(c.id)] = EntityFile(c)

\* claudian-settings.json of the call did not store field k
NotStored(k) == ~pre.cl.exists \/ ~Has(pre.cl.data, k)

(* C7: when the blob carries a bookkeeping field that claudian-settings    *)
(* does not store, after initialize() the persisted field equals the       *)
(* blob's value.                                                           *)
C7_StateMerged ==
  (Ended /\ outcome = "returned")
    => \A k \in StateFields :
         (pre.blob.exists /\ Has(pre.blob.data, k) /\ NotStored(k))
           => (clFile.exists /\ Has(clFile.data, k)
                 /\ clFile.data[k] = pre.blob.data[k])

(* C8 as stated: a bookkeeping field that claudian-settings.json stores is *)
(* never overwritten by the blob-state migration.                          *)
C8_StoredNeverOverwritten ==
  \A k \in StateFields :
    (pre.cl.exists /\ Has(pre.cl.data, k))
      => (clFile.exists /\ Has(clFile.data, k) /\ clFile.data[k] = pre.cl.data[k])

(* C8 amended: a bookkeeping field for which claudian-settings.json stores *)
(* a non-empty value is never overwritten by the blob-state migration.     *)
C8_StatePrecedence ==
  \A k \in StateFields :
    (pre.cl.exists /\ Has(pre.cl.data, k) /\ Truthy(pre.cl.data[k]))
      => (clFile.exists /\ Has(clFile.data, k) /\ clFile.data[k] = pre.cl.data[k])

\* the blob-state migration saved the settings and the stored hash survived
\* a blob that carries another one
C8_Witness ==
  /\ Logged(W("claudian", "state", "ok"))
  /\ pre.cl.exists /\ Has(pre.cl.data, "lastEnvHash")
  /\ pre.cl.data["lastEnvHash"] = "h1"
  /\ Has(pre.blob.data, "lastEnvHash") /\ pre.blob.data["lastEnvHash"] = "h2"
  /\ clFile.data["lastEnvHash"] = "h1"

ConsumedAsClaimed ==
  {"lastEnvHash", "lastClaudeModel", "lastCustomModel", "slashCommands",
   "conversations"}

\* the call cleared the blob: of the keys it had, exactly `consumed` are gone
ClearedOnly(consumed) ==
  Logged(W("blob", "", "ok"))
    => /\ blob.exists
       /\ DOMAIN blob.data = (DOMAIN pre.blob.data) \ consumed
       /\ \A k \in DOMAIN blob.data : blob.data[k] = pre.blob.data[k]

(* C9 as stated: clearing removes only the env hash, the last model        *)
(* selections, the command array and the conversation array; every other   *)
(* key is saved back unchanged.                                            *)
C9_ClearFrameAsClaimed == ClearedOnly(ConsumedAsClaimed)

(* C9 amended: clearing removes only the env hash, the last model          *)
(* selections, the command array, the conversation array and the legacy    *)
(* migrationVersion marker; every other key is saved back unchanged.       *)
C9_ClearFrame == ClearedOnly(ConsumedAsClaimed \cup {"migrationVersion"})

\* a cleared blob that kept its tab state and legacy active conversation
C9_Witness ==
  /\ Logged(W("blob", "", "ok"))
  /\ Has(pre.blob.data, "lastEnvHash")
  /\ {"tabManagerState", "activeConversationId"} \subseteq DOMAIN pre.blob.data
  /\ DOMAIN blob.data = {"tabManagerState", "activeConversationId"}

(* C10: when an initialize() that returned normally is followed, with no   *)
(* change in between, by another one that returns normally, the second     *)
(* leaves settings.json and claudian-settings.json as the first left them  *)
(* and returns the same settings.                                          *)
C10_IdempotentResult ==
  (Ended /\ outcome = "returned" /\ pre.outcome = "returned")
    => (ccFile = pre.cc /\ clFile = pre.cl /\ ret = pre.ret)

\* a second call returned after a first one that had migrated the split
\* file, and it went through the blob-state migration again
C10_Witness ==
  /\ Ended /\ outcome = "returned" /\ pre.outcome = "returned"
  /\ Logged(W("claudian", "state", "ok"))
  /\ pre.cc.exists /\ pre.cl.exists
  /\ ccFile = pre.cc /\ clFile = pre.cl /\ ret = pre.ret

\* the call issued a write to some file or to the blob
WritesIssued == \E i \in DOMAIN log : log[i].t # "verify"

(* C11 as stated: an initialize() that follows one that returned, with no  *)
(* change in between, issues no write at all.                              *)
C11_SecondCallWritesNothing ==
  pre.outcome = "returned" => ~WritesIssued

(* C11 amended: an initialize() that follows one that returned and left no *)
(* consumed key in the blob issues no write at all and leaves every file   *)
(* and the blob as they were.                                              *)
C11_NoWritesOnceMigrated ==
  (pre.outcome = "returned" /\ ~BlobCarried)
    => /\ ~WritesIssued
       /\ ccFile = pre.cc /\ clFile = pre.cl /\ blob = pre.blob
       /\ cmdFiles = pre.cmds /\ sessFiles = pre.sess

\* a call ended without a write after an earlier one had migrated a command
\* out of the blob and cleared it
C11_Witness ==
  /\ Ended /\ outcome = "returned" /\ pre.outcome = "returned"
  /\ pre.blob.exists /\ ~BlobCarried
  /\ pre.cmds["fix"] = EntityFile(CmdFix)
  /\ pre.cl.exists
  /\ ~WritesIssued

\* a write was issued to the file of kind t at path p
WrittenTo(t, p) == \E i \in DOMAIN log : log[i].t = t /\ log[i].p = p

\* at most one write is issued to a target, as the first one that succeeds
\* makes the file exist for the rest of the call
NoWriteAfterStored(t) ==
  \A i, j \in DOMAIN log :
    (i < j /\ log[i].t = t /\ log[i].r = "ok" /\ log[j].t = t)
      => log[j].p # log[i].p

(* C12: during content migration a command or session file that already   *)
(* exists is left as it is and no write is issued to it; skipping it sets  *)
(* no error: hadErrors is set only by an item write that threw, and a     *)
(* call with a failed item write is aborted only by the final load of an   *)
(* unparseable claudian-settings.json.                                     *)
C12_ContentReentrancy ==
  /\ \A p \in DOMAIN cmdFiles :
       pre.cmds[p].exists => (cmdFiles[p] = pre.cmds[p] /\ ~WrittenTo("command", p))
  /\ \A p \in DOMAIN sessFiles :
       pre.sess[p].exists => (sessFiles[p] = pre.sess[p] /\ ~WrittenTo("session", p))
  /\ NoWriteAfterStored("command") /\ NoWriteAfterStored("session")
  /\ hadErrors <=> ItemWriteThrew
  /\ (ItemWriteThrew /\ outcome = "threw") => ClaudianLoadThrows(clFile)

\* a call went through both loops with a blob command and a blob
\* conversation whose files existed with other content, kept them, set no
\* error and cleared the blob
C12_Witness ==
  /\ Ended /\ outcome = "returned"
  /\ CmdReviewA \in Range(CommandsOf(pre.blob.data))
  /\ pre.cmds["review"] = EntityFile(CmdReviewB)
  /\ cmdFiles["review"] = EntityFile(CmdReviewB)
  /\ ~hadErrors
  /\ Logged(W("blob", "", "ok"))

\* a step in which a write, or the read-back of one, fails
FailingWrite ==
  /\ Len(log') = Len(log) + 1
  /\ log'[Len(log')].r # "ok"

\* the blob as it is now still carries a consumed key
BlobCarriesNow ==
  /\ blob.exists
  /\ \/ \E k \in StateFields : Has(blob.data, k)
     \/ Len(CommandsOf(blob.data)) > 0
     \/ Len(ConversationsOf(blob.data)) > 0

\* a call that follows one which left inline content in the blob, and in
\* which no write fails: it writes the items whose files are missing, issues
\* no write for the others, and clears the consumed keys of the blob
C13_LaterCallCompletes ==
  (/\ Ended /\ outcome = "returned" /\ pre.outcome # "none"
   /\ pre.blob.exists /\ hasLegacyContentToMigrate(pre.blob.data)
   /\ \A i \in DOMAIN log : log[i].r = "ok")
    => /\ \A c \in Range(CommandsOf(pre.blob.data)) :
            /\ cmdFiles[CommandPath(c)].exists
            /\ pre.cmds[CommandPath(c)].exists <=> ~WrittenTo("command", CommandPath(c))
       /\ \A c \in Range(ConversationsOf(pre.blob.data)) :
            /\ sessFiles[SessionPath(c.id)].exists
            /\ pre.sess[SessionPath(c.id)].exists <=> ~WrittenTo("session", SessionPath(c.id))
       /\ Logged(W("blob", "", "ok"))
       /\ ~BlobCarriesNow

(* C13: a call that follows one in which item writes failed, and in which  *)
(* no write fails, writes the items whose files are missing, skips the     *)
(* others and clears the consumed keys of the blob; and if writes          *)
(* eventually stop failing, every call that ended with a failed item write *)
(* is eventually followed by a state whose blob carries no consumed key.   *)
C13_Recovery ==
  /\ []C13_LaterCallCompletes
  /\ (<>[][~FailingWrite]_vars)
       => ((Ended /\ ItemWriteThrew) ~> ~BlobCarriesNow)

\* the second call wrote the command whose write had failed, skipped the
\* one already stored and cleared the blob
C13_Witness ==
  /\ Ended /\ outcome = "returned" /\ pre.outcome = "returned"
  /\ Len(CommandsOf(pre.blob.data)) = 2
  /\ pre.cmds["fix"].exists /\ ~pre.cmds["review"].exists
  /\ log = <<W("command", "review", "ok"), W("blob", "", "ok")>>
  /\ ~BlobCarriesNow

(* C14: when the save of claudian-settings.json throws during the         *)
(* blob-state migration, initialize() throws, no command or session write  *)
(* is attempted, and the blob is neither written nor changed.              *)
C14_StateSaveThrowPropagates ==
  Logged(W("claudian", "state", "throw"))
    => /\ pc = "idle" /\ outcome = "threw"
       /\ log[Len(log)] = W("claudian", "state", "throw")
       /\ ~LoggedTo("command") /\ ~LoggedTo("session") /\ ~LoggedTo("blob")
       /\ cmdFiles = pre.cmds /\ sessFiles = pre.sess
       /\ blob = pre.blob

\* the state save threw in a call whose blob also carried a command, which
\* stayed in the blob with its file not written
C14_Witness ==
  /\ Logged(W("claudian", "state", "throw"))
  /\ outcome = "threw"
  /\ CommandsOf(pre.blob.data) = <<CmdFix>>
  /\ ~cmdFiles["fix"].exists
  /\ blob = pre.blob

\* the call started on settings.json alone
SplitDetected == pre.cc.exists /\ ~pre.cl.exists

\* a step of the split migration was taken or is about to be
SplitRan ==
  \/ pc \in {"split", "splitSave", "verify", "splitcc"}
  \/ \E i \in DOMAIN log :
       log[i].t \in {"verify", "cc"} \/ (log[i].t = "claudian" /\ log[i].p = "split")

\* runMigrations is still reading ccExists, claudianExists and dataJson
Detecting == pc \in {"ccExists", "claudianExists", "loadData"}

(* C15: the split migration runs exactly in the calls that start with      *)
(* settings.json present and claudian-settings.json absent; when that      *)
(* settings.json has no tool-private key it issues no write: settings.json *)
(* is unchanged and claudian-settings.json is not created by it.           *)
C15_SplitDetection ==
  /\ SplitRan => SplitDetected
  /\ (outcome # "none" /\ ~Detecting /\ SplitDetected
        /\ hasClaudianFields(pre.cc.data))
       => SplitRan
  /\ (outcome # "none" /\ SplitDetected /\ ~hasClaudianFields(pre.cc.data))
       => /\ ccFile = pre.cc
          /\ ~LoggedTo("cc") /\ ~LoggedTo("verify")
          /\ ~\E i \in DOMAIN log : log[i].t = "claudian" /\ log[i].p = "split"
          /\ (~LoggedTo("claudian") => clFile = pre.cl)

\* a call on a settings.json that holds permissions only ended with both
\* files as they were
C15_Witness ==
  /\ Ended /\ outcome = "returned"
  /\ SplitDetected
  /\ DOMAIN pre.cc.data = {"permissions"}
  /\ ccFile = pre.cc /\ ~clFile.exists
  /\ log = <<>>

\* the call started on a combined settings.json with userName, a flat
\* blockedCommands list and a flat permissions array of always-scoped
\* records, and the split migration stored both files
EndToEndSplitCase ==
  /\ SplitDetected
  /\ Has(pre.cc.data, "userName")
  /\ Has(pre.cc.data, "blockedCommands") /\ pre.cc.data["blockedCommands"].t = "list"
  /\ isLegacyPermissionsFormat(pre.cc.data)
  /\ \A i \in DOMAIN pre.cc.data["permissions"].v :
       pre.cc.data["permissions"].v[i].scope = "always"
  /\ Ended /\ outcome = "returned"
  /\ Logged(W("claudian", "split", "ok")) /\ Logged(W("cc", "", "ok"))

\* each record of a permissions array converted on its own
ConvertedRules(perms) == [i \in DOMAIN perms |-> legacyPermissionToCCRule(perms[i])]

(* C16 as stated: after the split migration of such a file the stored      *)
(* userName and blockedCommands.unix equal the legacy values, allow is the *)
(* list of the converted rule strings, and settings.json holds the schema  *)
(* reference and the permissions only.                                     *)
C16_EndToEndAsClaimed ==
  EndToEndSplitCase
    => /\ clFile.data["userName"] = pre.cc.data["userName"]
       /\ clFile.data["blockedCommands"].v["unix"] = pre.cc.data["blockedCommands"]
       /\ ccFile.data["permissions"].v["allow"]
            = ConvertedRules(pre.cc.data["permissions"].v)
       /\ DOMAIN ccFile.data = {"$schema", "permissions"}

(* C16 amended: after the split migration of such a file the stored        *)
(* userName equals the legacy one, blockedCommands.unix is the legacy list *)
(* normalized (string entries trimmed, blank ones removed), windows is the *)
(* default list, allow holds the converted rule strings without            *)
(* repetition, and settings.json holds the schema reference and the        *)
(* permissions only.                                                       *)
C16_EndToEndSplit ==
  EndToEndSplitCase
    => /\ clFile.data["userName"] = pre.cc.data["userName"]
       /\ clFile.data["blockedCommands"].v["unix"]
            = List(CleanCommandItems(pre.cc.data["blockedCommands"].v))
       /\ clFile.data["blockedCommands"].v["windows"] = List(DefaultWindows)
       /\ LET allow == ccFile.data["permissions"].v["allow"]
              rules == ConvertedRules(pre.cc.data["permissions"].v)
          IN /\ Range(allow) = Range(rules)
             /\ \A i, j \in DOMAIN allow : allow[i] = allow[j] => i = j
       /\ ccFile.data["permissions"].v["deny"] = <<>>
       /\ ccFile.data["permissions"].v["ask"] = <<>>
       /\ DOMAIN ccFile.data = {"$schema", "permissions"}

\* the split migration of a file with a blank blocked command and a
\* repeated always-scoped permission
C16_Witness ==
  /\ EndToEndSplitCase
  /\ pre.cc.data["userName"] = "Ann"
  /\ Len(pre.cc.data["blockedCommands"].v) = 2
  /\ clFile.data["blockedCommands"].v["unix"] = List(<<Str(<<"rm", " ", "-rf">>)>>)
  /\ Len(pre.cc.data["permissions"].v) = 3
  /\ ccFile.data["permissions"].v["allow"]
       = <<Rule("Bash", <<"git", " ", "status">>), Rule("Bash", <<>>)>>

\* the conversion of a flat permissions array has returned
ConvertedCall == call.fn = "legacyPermissionsToCCPermissions" /\ result.done

\* the rule string the claim gives a record
RuleAsClaimed(perm) ==
  IF perm.pattern \in {<<>>, <<"*">>}
  THEN Rule(perm.toolName, <<>>) ELSE Rule(perm.toolName, perm.pattern)

\* the rule string of a record: a JSON object text converts to the bare
\* tool name as well
RuleAmended(perm) ==
  IF perm.pattern \in {<<>>, <<"*">>, JsonObjectPattern}
  THEN Rule(perm.toolName, <<>>) ELSE Rule(perm.toolName, perm.pattern)

\* position in perms of the first always-scoped record that converts to r
FirstOf(perms, r, RuleOf(_)) ==
  CHOOSE i \in DOMAIN perms :
    /\ perms[i].scope = "always" /\ RuleOf(perms[i]) = r
    /\ \A j \in 1..(i - 1) : ~(perms[j].scope = "always" /\ RuleOf(perms[j]) = r)

\* permissions is the conversion of perms under the rule encoding RuleOf:
\* the rules of the always-scoped records, each once, in the order of
\* their first occurrence, all in allow
ConversionOf(perms, permissions, RuleOf(_)) ==
  LET allow == permissions.v["allow"] IN
  /\ DOMAIN permissions.v = {"allow", "deny", "ask"}
  /\ Range(allow) = {RuleOf(perms[i]) : i \in {j \in DOMAIN perms : perms[j].scope = "always"}}
  /\ \A i, j \in DOMAIN allow :
       i < j => FirstOf(perms, allow[i], RuleOf) < FirstOf(perms, allow[j], RuleOf)
  /\ permissions.v["deny"] = <<>> /\ permissions.v["ask"] = <<>>

(* C17 as stated: a record converts to the bare tool name if its pattern   *)
(* is empty or '*' and to tool(pattern) otherwise; the always-scoped       *)
(* records are kept, de-duplicated in first-occurrence order, all in allow *)
(* with deny and ask empty.                                                *)
C17_ConversionAsClaimed ==
  ConvertedCall => ConversionOf(call.arg, result.v, RuleAsClaimed)

(* C17 amended: a record converts to the bare tool name if its pattern is  *)
(* empty, '*' or a JSON object text, and to tool(pattern) otherwise; the   *)
(* always-scoped records are kept, de-duplicated in first-occurrence       *)
(* order, all in allow with deny and ask empty.                            *)
C17_PermissionConversion ==
  ConvertedCall => ConversionOf(call.arg, result.v, RuleAmended)

\* a session record was dropped, a repeated rule kept once, and a JSON
\* object pattern converted to the bare tool name
C17_Witness ==
  /\ ConvertedCall
  /\ call.arg = << [toolName |-> "Read", pattern |-> JsonObjectPattern, scope |-> "always"],
                    [toolName |-> "Bash", pattern |-> <<"ls">>, scope |-> "session"],
                    [toolName |-> "Read", pattern |-> <<"*">>, scope |-> "always"] >>
  /\ result.v.v["allow"] = <<Rule("Read", <<>>)>>

(* C18: when the permissions of the combined file are already the         *)
(* structured object, the split migration writes them to settings.json     *)
(* unchanged: the object written equals the object read.                   *)
C18_ObjectPermissionsUnchanged ==
  (/\ SplitCompleted
   /\ Has(pre.cc.data, "permissions") /\ pre.cc.data["permissions"].t = "obj")
    => ccFile.data["permissions"] = pre.cc.data["permissions"]

\* the split migration's environment merge has returned, and it did merge:
\* env is an object that converts to a non-empty text
MergedCall ==
  /\ call.fn = "mergeEnvironment" /\ result.done
  /\ Has(call.arg, "env") /\ call.arg["env"].t = "obj"
  /\ convertEnvObjectToString(call.arg["env"]) # <<>>

\* the KEY=VALUE lines of a text, as key/value pairs
EnvPairs(text) == ParseEnvInto(<<>>, Split(text))

EnvKeys(text) == {EnvPairs(text)[i].k : i \in DOMAIN EnvPairs(text)}

\* the value a text gives key k
EnvValue(text, k) ==
  LET ps == EnvPairs(text) IN ps[CHOOSE i \in DOMAIN ps : ps[i].k = k].v

LinesOf(text) == IF text = <<>> THEN <<>> ELSE Split(text)

\* every line of the text is a KEY=VALUE line and no key has two lines
OneLinePerKey(text) ==
  LET ps == EnvPairs(text) IN
  /\ LinesOf(text) = [i \in DOMAIN ps |-> KV(ps[i].k, ps[i].v)]
  /\ \A i, j \in DOMAIN ps : ps[i].k = ps[j].k => i = j

\* the free-text block and the entries of the structured map of the call
TextOfCall == Coalesce(call.arg, "environmentVariables", <<>>)
EntriesOfCall == Range(call.arg["env"].v)

(* C19 as stated: the merged text has one KEY=VALUE line per distinct key, *)
(* every key of the free text and of the structured map is present, and a  *)
(* key of both has the structured map's value.                             *)
C19_EnvMergeAsClaimed ==
  MergedCall
    => /\ OneLinePerKey(result.v)
       /\ EnvKeys(TextOfCall) \subseteq EnvKeys(result.v)
       /\ \A e \in EntriesOfCall : e.k \in EnvKeys(result.v)
       /\ \A e \in EntriesOfCall :
            (e.k \in EnvKeys(TextOfCall) /\ e.k \in EnvKeys(result.v))
              => (e.v.t = "str" /\ EnvValue(result.v, e.k) = e.v.v)

\* a structured entry that reaches the merged text: its value is a string
\* and its key is not empty and does not start a comment
Contributes(e) == e.v.t = "str" /\ e.k # <<>> /\ Head(e.k) # "#"

(* C19 amended: the merged text has one KEY=VALUE line per distinct key;   *)
(* its keys are the keys of the free text and of the structured entries    *)
(* with a string value and a well-formed key; such a structured entry      *)
(* gives its key the entry's value without trailing whitespace, also when  *)
(* the free text has the key; the other keys keep the free text's value.   *)
C19_EnvMerge ==
  MergedCall
    => /\ OneLinePerKey(result.v)
       /\ EnvKeys(result.v)
            = EnvKeys(TextOfCall) \cup {e.k : e \in {x \in EntriesOfCall : Contributes(x)}}
       /\ \A e \in EntriesOfCall :
            Contributes(e) => EnvValue(result.v, e.k) = TrimRight(e.v.v)
       /\ \A k \in EnvKeys(TextOfCall) :
            (~\E e \in EntriesOfCall : Contributes(e) /\ e.k = k)
              => EnvValue(result.v, k) = EnvValue(TextOfCall, k)

\* a free text with a repeated key and a key of its own was merged with a
\* map that overrides the repeated key and adds one
C19_Witness ==
  /\ MergedCall
  /\ TextOfCall = <<"A", "=", "1", "\n", "A", "=", "9">>
  /\ call.arg["env"] = Obj(<<EnvEntry(<<"C">>, Str(<<"4", " ">>)),
                               EnvEntry(<<"A">>, Str(<<"3">>))>>)
  /\ result.v = <<"A", "=", "3", "\n", "C", "=", "4">>

\* normalizeBlockedCommands has returned
NormalizedCall == call.fn = "normalizeBlockedCommands" /\ result.done

\* an entry that stays in a cleaned list: a string that is not blank
KeptItem(item) == item.t = "str" /\ Trim(item.v) # <<>>

\* a list cleaned as the claim says: its string entries trimmed, in order,
\* without the blank and the non-string ones
CleanedAsClaimed(items) ==
  LET kept == SelectSeq(items, KeptItem)
  IN List([i \in DOMAIN kept |-> Str(Trim(kept[i].v))])

\* a bucket of a platform-keyed object, cleaned or defaulted
BucketAsClaimed(obj, platform, fallback) ==
  IF Has(obj, platform) /\ obj[platform].t = "list"
  THEN CleanedAsClaimed(obj[platform].v)
  ELSE List(fallback)

\* no entry of the list is blank, untrimmed or not a string
WellFormedList(bucket) ==
  /\ bucket.t = "list"
  /\ \A i \in DOMAIN bucket.v :
       /\ bucket.v[i].t = "str"
       /\ bucket.v[i].v # <<>>
       /\ Head(bucket.v[i].v) # " "
       /\ bucket.v[i].v[Len(bucket.v[i].v)] # " "

(* C20: normalizeBlockedCommands maps a flat list to its cleaned entries   *)
(* under unix with the default windows list, a platform-keyed object       *)
(* bucket by bucket (a list bucket cleaned, any other bucket defaulted),   *)
(* and anything else to the defaults; the result has both buckets and no   *)
(* blank or untrimmed entry.                                               *)
C20_BlocklistNormalization ==
  NormalizedCall
    => LET has == call.arg.has
           value == call.arg.value
           out == result.v
       IN /\ out.t = "obj" /\ DOMAIN out.v = {"unix", "windows"}
          /\ WellFormedList(out.v["unix"]) /\ WellFormedList(out.v["windows"])
          /\ (has /\ value.t = "list")
               => /\ out.v["unix"] = CleanedAsClaimed(value.v)
                  /\ out.v["windows"] = List(DefaultWindows)
          /\ (has /\ value.t = "obj")
               => /\ out.v["unix"] = BucketAsClaimed(value.v, "unix", DefaultUnix)
                  /\ out.v["windows"] = BucketAsClaimed(value.v, "windows", DefaultWindows)
          /\ (~has \/ value.t \notin {"list", "obj"})
               => out = getDefaultBlockedCommands

\* an object whose unix list had a padded, a blank and a non-string entry
\* and whose windows bucket was no list
C20_Witness ==
  /\ NormalizedCall
  /\ call.arg.has /\ call.arg.value.t = "obj"
  /\ Has(call.arg.value.v, "unix") /\ Has(call.arg.value.v, "windows")
  /\ call.arg.value.v["unix"] = List(<<Str(<<" ", "rm", " ", "-rf", " ">>), NonStr(7)>>)
  /\ call.arg.value.v["windows"] = NonStr(1)
  /\ result.v = Obj([unix |-> List(<<Str(<<"rm", " ", "-rf">>)>>),
                     windows |-> List(DefaultWindows)])

----------------------------------------------------------------------------
(* C21 *)

\* a load() call that returned
LoadReturned(c) == ops[c].kind = "load" /\ ops[c].pc = "returned"

\* the fields load() passes through its normalizers
NormalizedFields == {"blockedCommands", "claudeCliPath", "claudeCliPathsByHost"}

\* every path of a per-host CLI path map is a trimmed, non-blank string
WellFormedPaths(paths) ==
  /\ paths.t = "obj"
  /\ \A h \in DOMAIN paths.v :
       /\ paths.v[h].t = "str"
       /\ paths.v[h].v # <<>>
       /\ Trim(paths.v[h].v) = paths.v[h].v

\* C21 as stated: PluginSettingsStore.load() returns a complete record in
\* which every field stored in the file keeps the file's value.
C21_LoadAsClaimed ==
  \A c \in Callers :
    (LoadReturned(c) /\ ops[c].seen.exists) =>
      \A k \in DOMAIN ops[c].seen.data :
        /\ k \in DOMAIN ops[c].ret
        /\ ops[c].ret[k] = ops[c].seen.data[k]

\* the record a returned load() call holds
C21_CompleteRecord ==
  \A c \in Callers :
    LoadReturned(c) =>
      LET file == ops[c].seen
          record == ops[c].ret
      IN /\ DOMAIN DEFAULT_SETTINGS \subseteq DOMAIN record
         /\ ~file.exists => record = DEFAULT_SETTINGS
         /\ file.exists =>
              /\ "activeConversationId" \notin DOMAIN record
              /\ \A k \in DOMAIN file.data
                           \ (NormalizedFields \cup {"activeConversationId"}) :
                   record[k] = file.data[k]
              /\ \A k \in DOMAIN DEFAULT_SETTINGS \ DOMAIN file.data :
                   record[k] = DEFAULT_SETTINGS[k]
         /\ record["blockedCommands"].t = "obj"
         /\ WellFormedList(record["blockedCommands"].v["unix"])
         /\ WellFormedList(record["blockedCommands"].v["windows"])
         /\ WellFormedPaths(record["claudeCliPathsByHost"])

\* a load() call leaves every file as it was
C21_LoadWritesNothing ==
  [][\A c \in Callers :
       (ops[c].pc = "idle" /\ ops'[c].kind = "load")
         => UNCHANGED <<ccFile, clFile, blob, cmdFiles, sessFiles>>]_vars

\* C21 (amended): PluginSettingsStore.load() on an absent file returns the
\* full defaults; on a file that parses it returns a complete record in
\* which every stored field except activeConversationId (dropped) and
\* blockedCommands, claudeCliPath, claudeCliPathsByHost (normalized) keeps
\* the file's value and every field missing from the file takes its
\* default; load() writes nothing.
C21_Load == []C21_CompleteRecord /\ C21_LoadWritesNothing

\* a partial file with a flat blocked-command list has been loaded
C21_Witness ==
  \E c \in Callers :
    /\ LoadReturned(c)
    /\ ops[c].seen.exists
    /\ Has(ops[c].seen.data, "userName")
    /\ Has(ops[c].seen.data, "blockedCommands")
    /\ ops[c].seen.data["blockedCommands"].t = "list"
    /\ ~Has(ops[c].seen.data, "model")
    /\ ops[c].ret["model"] = DEFAULT_SETTINGS["model"]

----------------------------------------------------------------------------
(* C22 *)

\* the keys runMigrations consumes from the blob
ConsumedKeys == StateFields \cup {"slashCommands", "conversations"}

\* the blob of the call exists and carries no key that runMigrations consumes
BlobCarriesOnlyOthers ==
  /\ outcome # "none"
  /\ pre.blob.exists
  /\ DOMAIN pre.blob.data \cap ConsumedKeys = {}

\* C22: initialize() on a legacy blob whose keys are neither bookkeeping
\* fields nor inline content (e.g. only activeConversationId) never writes
\* the blob and never puts activeConversationId into claudian-settings.json.
C22_ObsoleteMarkerIgnored ==
  BlobCarriesOnlyOthers =>
    /\ ~LoggedTo("blob")
    /\ blob = pre.blob
    /\ Has(clFile.data, "activeConversationId")
         => /\ Has(pre.cl.data, "activeConversationId")
            /\ clFile = pre.cl

\* a call on a blob with activeConversationId has returned after it wrote
\* claudian-settings.json
C22_Witness ==
  /\ BlobCarriesOnlyOthers
  /\ Has(pre.blob.data, "activeConversationId")
  /\ outcome = "returned"
  /\ LoggedTo("claudian")
  /\ clFile.exists /\ clFile # pre.cl

----------------------------------------------------------------------------
(* C24 *)

\* caller c's update() saves in this step, and nothing was written to the
\* file since that call loaded it
SerializedSave(c) ==
  /\ ops[c].pc = "loaded"
  /\ ops'[c].pc = "returned"
  /\ ops[c].seen = clFile

\* C24 as stated: after a serialized update(partial), load() returns the
\* previous load() result with exactly the fields of partial replaced.
C24_UpdateAsClaimed ==
  [][\A c \in Callers :
       SerializedSave(c) =>
         ClaudianLoad(clFile') = Spread(ClaudianLoad(clFile), ops[c].updates)]_vars

\* C24 (amended): after a serialized update(partial), load() returns a record
\* with the fields of the previous load() result and of partial, in which
\* every field outside partial is unchanged, every field of partial other
\* than blockedCommands, claudeCliPath and claudeCliPathsByHost has partial's
\* value, and a blockedCommands given in partial is returned normalized
\* (equal to partial's value when that is already trimmed and non-blank).
C24_UpdateLoadMergeSave ==
  [][\A c \in Callers :
       SerializedSave(c) =>
         LET before == ClaudianLoad(clFile)
             after == ClaudianLoad(clFile')
             partial == ops[c].updates
         IN /\ DOMAIN after = DOMAIN before \cup DOMAIN partial
            /\ \A k \in DOMAIN before \ DOMAIN partial : after[k] = before[k]
            /\ \A k \in DOMAIN partial \ NormalizedFields : after[k] = partial[k]
            /\ Has(partial, "blockedCommands") =>
                 /\ WellFormedList(after["blockedCommands"].v["unix"])
                 /\ WellFormedList(after["blockedCommands"].v["windows"])
                 /\ (WellFormedList(partial["blockedCommands"].v["unix"])
                      /\ WellFormedList(partial["blockedCommands"].v["windows"]))
                      => after["blockedCommands"] = partial["blockedCommands"]]_vars

\* an update of two fields has returned on a file that held other fields
C24_Witness ==
  \E c \in Callers :
    /\ ops[c].kind = "update" /\ ops[c].pc = "returned"
    /\ DOMAIN ops[c].updates = {"model", "thinkingBudget"}
    /\ ops[c].seen.exists /\ Has(ops[c].seen.data, "userName")
    /\ clFile = ClaudianFileOf(Spread(ops[c].current, ops[c].updates))
    /\ clFile.data["userName"] = "Bob"

----------------------------------------------------------------------------
(* C25 *)

\* the plugin start has made the call that logs event e
Happened(e) == \E i \in DOMAIN plugin.events : plugin.events[i] = e

\* the place of event e in the plugin start, 0 when it has not happened
PlaceOf(e) ==
  IF Happened(e)
  THEN CHOOSE i \in DOMAIN plugin.events : plugin.events[i] = e
  ELSE 0

\* C25: in every plugin start, initialize() has returned (and is not run
\* again) before any command or session file is loaded, before the chat view
\* is registered and before the settings tab is added; the loads precede the
\* view and the view precedes the settings tab.
C25_StartupOrdering ==
  /\ plugin.events # <<>> => (pc = "idle" /\ outcome = "returned")
  /\ plugin.pc \in {"conversations", "saveSettings", "saveConversations",
                     "plugins", "savePlugins", "register", "settingTab",
                     "loaded"}
       => (pc = "idle" /\ outcome = "returned")
  /\ Happened("sessions.loadAllConversations")
       => 0 < PlaceOf("commands.loadAll")
          /\ PlaceOf("commands.loadAll") < PlaceOf("sessions.loadAllConversations")
  /\ Happened("registerView")
       => PlaceOf("sessions.loadAllConversations") < PlaceOf("registerView")
  /\ Happened("addSettingTab")
       => PlaceOf("registerView") < PlaceOf("addSettingTab")

\* a start whose initialize() migrated a legacy command has added the
\* settings tab
C25_Witness ==
  /\ plugin.pc = "loaded"
  /\ Happened("addSettingTab")
  /\ LoggedTo("command")
  /\ outcome = "returned"

----------------------------------------------------------------------------
(* C26 *)

\* caller c's update(), setLastModel() or setLastEnvHash() has returned
UpdateReturned(c) ==
  /\ ops[c].kind \in {"update", "setLastModel", "setLastEnvHash"}
  /\ ops[c].pc = "returned"

\* C26 as stated: the load and save of one update() never fall between the
\* load and save of another, so when two update() calls on disjoint fields
\* have both completed, both updates are present in claudian-settings.json.
C26_UpdatesNeverInterleave ==
  \A c, d \in Callers :
    ( /\ c # d
      /\ UpdateReturned(c) /\ UpdateReturned(d)
      /\ \A e \in Callers \ {c, d} : ops[e].pc = "idle"
      /\ DOMAIN ops[c].updates # {} /\ DOMAIN ops[d].updates # {}
      /\ DOMAIN ops[c].updates \cap DOMAIN ops[d].updates = {}
      /\ (DOMAIN ops[c].updates \cup DOMAIN ops[d].updates)
            \cap NormalizedFields = {} )
    => /\ \A k \in DOMAIN ops[c].updates : clFile.data[k] = ops[c].updates[k]
       /\ \A k \in DOMAIN ops[d].updates : clFile.data[k] = ops[d].updates[k]

----------------------------------------------------------------------------
(* C27 *)

\* the tool-private keys settings.json carries
ToolPrivateKeys(file) == DOMAIN file.data \cap CLAUDIAN_ONLY_FIELDS

\* the call started on what an interrupted split leaves: the previous call
\* threw, claudian-settings.json holds the fields split out of settings.json
\* and settings.json was not rewritten
StartedAfterInterruptedSplit ==
  /\ pre.outcome = "threw"
  /\ pre.cc.exists /\ hasClaudianFields(pre.cc.data)
  /\ pre.cl = ClaudianFileOf(ClaudianFieldsOf(pre.cc.data))

\* C27 as stated: when an initialize() aborted after claudian-settings.json
\* was written and before settings.json was rewritten, the next initialize()
\* that returns normally leaves settings.json without any tool-private key.
C27_InterruptedSplitRecovered ==
  (Ended /\ outcome = "returned" /\ StartedAfterInterruptedSplit)
    => ToolPrivateKeys(ccFile) = {}

----------------------------------------------------------------------------
(* C28 *)

\* clearLegacyActiveConversationId() has been called
LegacyIdCleared == \E c \in Callers : ops[c].kind = "clearLegacy"

\* C28 as stated: a legacy activeConversationId stored in
\* claudian-settings.json is still returned by getLegacyActiveConversationId()
\* after an update(), setLastModel() or setLastEnvHash() that found it in the
\* file has returned, as long as clearLegacyActiveConversationId() was not
\* called.
C28_LegacyIdKeptUntilCleared ==
  \A c \in Callers :
    ( /\ UpdateReturned(c)
      /\ StoredLegacyId(ops[c].seen).t = "str"
      /\ ~LegacyIdCleared )
    => LegacyActiveConversationId(clFile, blob) = StoredLegacyId(ops[c].seen)

----------------------------------------------------------------------------
(* C29 *)

\* the persisted lastEnvHash is the hash of the persisted environment block
PersistedHashCurrent ==
  /\ ~ClaudianLoadThrows(clFile)
  /\ ~HashChanged(ClaudianLoad(clFile))

\* the hashes under which the sessions of the persisted conversations were
\* created
PersistedSessionHashes ==
  { SessionIdOf(conv).v : conv \in Invalidated(LoadAllConversations(sessFiles)) }

\* C29 as stated: once a plugin start has completed, if the persisted
\* lastEnvHash equals the hash of the environment variables then no persisted
\* conversation carries a sessionId created under a different hash, also
\* when an earlier loadSettings was aborted between saving the settings and
\* saving the invalidated conversations.
C29_StaleSessionsCleared ==
  (plugin.pc = "loaded" /\ PersistedHashCurrent)
    => PersistedSessionHashes \subseteq {ClaudianLoad(clFile).lastEnvHash}

----------------------------------------------------------------------------
(* C30 *)

\* the handler is a saveCommand that changes the name of a command
Renaming(handler) ==
  /\ handler.kind = "save"
  /\ handler.existing # EmptyObj
  /\ handler.existing.name # handler.cmd.name

\* in this step a store call of handler h returned
CallReturned(h) == edit'.h[h].calls # edit.h[h].calls

\* the rename as it stands after a store call of its own returned: a save
\* that threw is its only call and the old file is present; delete is its
\* second call, after a save that succeeded; and when save, delete and the
\* reload succeeded, the old file is gone, the file under the new name
\* holds the command, and the reloaded list has the command once
RenameHolds(handler, files, commands) ==
  LET old == CommandPath(handler.existing)
      new == CommandPath(handler.cmd)
  IN /\ handler.calls[1] = StoreCall("save", "throw")
          => /\ handler.calls = <<StoreCall("save", "throw")>>
             /\ handler.pc = "threw"
             /\ files[old].exists
     /\ \A i \in DOMAIN handler.calls :
          handler.calls[i].op = "delete"
            => i = 2 /\ handler.calls[1] = StoreCall("save", "ok")
     /\ handler.pc = "done"
          => /\ handler.calls = <<StoreCall("save", "ok"), StoreCall("delete", "ok"),
                                  StoreCall("loadAll", "ok")>>
             /\ ~files[old].exists
             /\ files[new] = EntityFile(handler.cmd)
             /\ Cardinality({c \in commands : c.name = handler.cmd.name}) = 1
             /\ \A c \in commands : c.name # handler.existing.name

(* C30: renaming a command saves the new file before deleting the old     *)
(* one: when save throws, delete is never called and the old file is      *)
(* still present; when both succeed, exactly one file of the command      *)
(* remains, the one under the new name, and the reloaded list contains    *)
(* the command once.                                                       *)
C30_RenameSavesBeforeDelete ==
  [][\A h \in Handlers :
       (Renaming(edit'.h[h]) /\ CallReturned(h))
         => RenameHolds(edit'.h[h], cmdFiles', plugin'.slashCommands)]_vars

\* the same of a rename during which no other handler of the settings tab
\* ran: the order of the calls inside saveCommand is as the sentence says
RenameHoldsWhenAlone ==
  [][\A h \in Handlers :
       (Renaming(edit'.h[h]) /\ CallReturned(h) /\ edit'.h[h].alone)
         => RenameHolds(edit'.h[h], cmdFiles', plugin'.slashCommands)]_vars

\* a rename ran alone to its end, and one ran while another handler did
RenamedAlone ==
  \E h \in Handlers :
    /\ Renaming(edit.h[h]) /\ edit.h[h].pc = "done" /\ edit.h[h].alone
    /\ ~cmdFiles[CommandPath(edit.h[h].existing)].exists
    /\ cmdFiles[CommandPath(edit.h[h].cmd)].exists
RenamedOverlapped ==
  \E h \in Handlers :
    Renaming(edit.h[h]) /\ edit.h[h].pc = "done" /\ ~edit.h[h].alone

====
